---- MODULE Spec2Model ----
(***************************************************************************)
(* Model of the three documentation checkers of bknd-skills:               *)
(*   checker 1  scripts/validate-skills.ts, lines 1-138   (skill metadata) *)
(*   checker 2  scripts/validate-skills.ts, lines 140-241 (related skills) *)
(*   checker 3  the UI+code section checker                                *)
(* Documents are sequences of one-character strings, so that the regular   *)
(* expressions, split, trim, slice and toLowerCase of the source are       *)
(* computed character by character.                                        *)
(***************************************************************************)
EXTENDS Integers, Sequences, FiniteSets, TLC

VARIABLES
  pc,               \* position of the modelled process
  content,          \* text returned by the last readFile
  folderName,       \* basename(dirname(filePath)) of the file being validated
  frontmatter,      \* value returned by the last extractFrontmatter call
  result,           \* ValidationResult returned by the last validateSkill call
  prev,             \* ValidationResult of the document before it was edited
  edited,           \* TRUE once the trigger phrase was removed from the document
  fs,               \* the skills root: directory entry name -> Entry
  files,            \* checker 1: files[], as discovered and then sorted
  queue,            \* files / skills the main loop has still to visit
  results,          \* checker 1: results[]
  errorCount,       \* checker 1: errorCount
  warningCount,     \* checker 1: warningCount
  existingSkills,   \* checker 2: existingSkills
  issues,           \* checker 2: issues[]
  noRelatedSection, \* checker 2: noRelatedSection[]
  missing,          \* checker 3: missing[]
  verbose,          \* checker 3: process.argv.includes("--verbose")
  record,           \* the key/value record a frontmatter block is rendered from
  checker,          \* which script's main is running: 1, 2 or 3, and 0 for none
  stdout,           \* lines written by console.log / console.error
  exitCode          \* process exit code, -1 while the process runs

vars == <<pc, content, folderName, frontmatter, result, prev, edited, fs, files, queue,
          results, errorCount, warningCount, existingSkills, issues,
          noRelatedSection, missing, verbose, record, checker, stdout, exitCode>>

----------------------------------------------------------------------------
(* Bounds of the model *)

\* longest filler put around the interesting part of a generated value
MaxPad == 2

\* most SKILL.md files the skills root holds in a run of checker 1
MaxFiles == 2

\* most entries the skills root holds in a run of checker 2
MaxSkills == 2

----------------------------------------------------------------------------
(* Strings *)

Min(S) == CHOOSE x \in S : \A y \in S : x <= y
Max(S) == CHOOSE x \in S : \A y \in S : x >= y

\* n copies of the character c
Rep(c, n) == [i \in 1..n |-> c]

\* the elements of a sequence
Range(s) == {s[i] : i \in 1..Len(s)}

\* the characters String.prototype.trim removes that occur in the documents
WhiteSpace == {" ", "\t", "\n", "\r"}

LowerLetters == {"a","b","c","d","e","f","g","h","i","j","k","l","m",
                 "n","o","p","q","r","s","t","u","v","w","x","y","z"}
Digits == {"0","1","2","3","4","5","6","7","8","9"}

\* [a-z0-9]
LowerAlnum == LowerLetters \cup Digits

\* the upper-case letters A-Z and the lower-case letters a-z, in their order
UpperLetters ==
  <<"A","B","C","D","E","F","G","H","I","J","K","L","M",
    "N","O","P","Q","R","S","T","U","V","W","X","Y","Z">>
LowerLetterSeq ==
  <<"a","b","c","d","e","f","g","h","i","j","k","l","m",
    "n","o","p","q","r","s","t","u","v","w","x","y","z">>

\* each upper-case letter with its lower case
UpperToLower ==
  [c \in Range(UpperLetters) |->
     LowerLetterSeq[CHOOSE i \in 1..26 : UpperLetters[i] = c]]

\* String.prototype.toLowerCase
toLowerCase(s) ==
  [i \in 1..Len(s) |-> IF s[i] \in DOMAIN UpperToLower THEN UpperToLower[s[i]] ELSE s[i]]

\* String.prototype.trim
trim(s) ==
  LET keep == {i \in 1..Len(s) : s[i] \notin WhiteSpace}
  IN  IF keep = {} THEN << >> ELSE SubSeq(s, Min(keep), Max(keep))

\* String.prototype.indexOf for a single character: 0-based, -1 when absent
indexOf(s, c) ==
  LET at == {i \in 1..Len(s) : s[i] = c}
  IN  IF at = {} THEN -1 ELSE Min(at) - 1

\* String.prototype.includes
includes(s, sub) ==
  \E i \in 0..(Len(s) - Len(sub)) : SubSeq(s, i + 1, i + Len(sub)) = sub

\* String.prototype.startsWith / endsWith for a single character
startsWith(s, c) == Len(s) >= 1 /\ s[1] = c
endsWith(s, c) == Len(s) >= 1 /\ s[Len(s)] = c

\* s.slice(1, -1)
sliceInner(s) == IF Len(s) <= 2 THEN << >> ELSE SubSeq(s, 2, Len(s) - 1)

\* s.split("\n")
split(s) ==
  LET nl == {i \in 1..Len(s) : s[i] = "\n"}
      starts == {1} \cup {i + 1 : i \in nl}
      nth(k) == CHOOSE p \in starts : Cardinality({q \in starts : q < p}) = k - 1
      lineEnd(p) == Min({i \in nl : i >= p} \cup {Len(s) + 1})
  IN  [k \in 1..Cardinality(starts) |-> SubSeq(s, nth(k), lineEnd(nth(k)) - 1)]

----------------------------------------------------------------------------
(* Checker 1: frontmatter *)

\* NAME_REGEX without its second alternative: /^[a-z0-9][a-z0-9-]*[a-z0-9]$/
NAME_REGEX_TwoOrMore(s) ==
  /\ Len(s) >= 2
  /\ s[1] \in LowerAlnum
  /\ s[Len(s)] \in LowerAlnum
  /\ \A i \in 2..(Len(s) - 1) : s[i] \in LowerAlnum \cup {"-"}

\* const NAME_REGEX = /^[a-z0-9][a-z0-9-]*[a-z0-9]$|^[a-z0-9]$/  (NAME_REGEX.test)
NAME_REGEX(s) ==
  \/ /\ Len(s) >= 2
     /\ s[1] \in LowerAlnum
     /\ s[Len(s)] \in LowerAlnum
     /\ \A i \in 2..(Len(s) - 1) : s[i] \in LowerAlnum \cup {"-"}
  \/ /\ Len(s) = 1
     /\ s[1] \in LowerAlnum

\* the null returned when the frontmatter regular expression does not match
Null == [isNull |-> TRUE, rec |-> << >>]

KeyName == <<"n", "a", "m", "e">>
KeyDescription == <<"d", "e", "s", "c", "r", "i", "p", "t", "i", "o", "n">>

\* positions j of content where "\n---" starts, at or after the end of "---\n"
closingAt(c) ==
  {j \in 5..(Len(c) - 3) : SubSeq(c, j, j + 3) = <<"\n", "-", "-", "-">>}

\* content.match(/^---\n([\s\S]*?)\n---/): TRUE when the expression matches
frontmatterMatch(c) ==
  /\ Len(c) >= 4
  /\ SubSeq(c, 1, 4) = <<"-", "-", "-", "\n">>
  /\ closingAt(c) # {}

\* match[1]: the lazy group ends at the first "\n---"
frontmatterBlock(c) == SubSeq(c, 5, Min(closingAt(c)) - 1)

\* the value of one "key: value" line, without the trim() of line 30
lineValueNoTrim(line) ==
  LET value == SubSeq(line, indexOf(line, ":") + 2, Len(line))
  IN  IF \/ startsWith(value, "\"") /\ endsWith(value, "\"")
         \/ startsWith(value, "'") /\ endsWith(value, "'")
      THEN sliceInner(value)
      ELSE value

\* the value of one "key: value" line, quotes removed
lineValue(line) ==
  LET value == trim(SubSeq(line, indexOf(line, ":") + 2, Len(line)))
  IN  IF \/ startsWith(value, "\"") /\ endsWith(value, "\"")
         \/ startsWith(value, "'") /\ endsWith(value, "'")
      THEN sliceInner(value)
      ELSE value

\* the key of one "key: value" line
lineKey(line) == trim(SubSeq(line, 1, indexOf(line, ":")))

\* extractFrontmatter keeping the first occurrence of a key instead of the last
extractFrontmatterFirstWins(c) ==
  IF ~frontmatterMatch(c) THEN Null
  ELSE LET lines == split(frontmatterBlock(c))
           used == {i \in 1..Len(lines) : indexOf(lines[i], ":") > 0}
           keys == {lineKey(lines[i]) : i \in used}
           first(k) == Min({i \in used : lineKey(lines[i]) = k})
       IN  [isNull |-> FALSE,
            rec |-> [k \in keys |-> lineValue(lines[first(k)])]]

\* function extractFrontmatter(content)
extractFrontmatter(c) ==
  IF ~frontmatterMatch(c) THEN Null
  ELSE LET lines == split(frontmatterBlock(c))
           used == {i \in 1..Len(lines) : indexOf(lines[i], ":") > 0}
           keys == {lineKey(lines[i]) : i \in used}
           last(k) == Max({i \in used : lineKey(lines[i]) = k})
       IN  [isNull |-> FALSE,
            rec |-> [k \in keys |-> lineValue(lines[last(k)])]]

\* JavaScript truthiness of frontmatter[key]: defined and not the empty string
truthy(fm, key) == key \in DOMAIN fm.rec /\ fm.rec[key] # << >>

----------------------------------------------------------------------------
(* Checker 1: validateSkill *)

\* a message: its template, and the values interpolated into it
Msg(kind, n, s, t) == [kind |-> kind, n |-> n, s |-> s, t |-> t]

ErrMissingFrontmatter == Msg("Missing YAML frontmatter (must start with ---)", 0, << >>, << >>)
ErrMissingName == Msg("Missing required field: name", 0, << >>, << >>)
ErrNameLength(n) == Msg("name must be 1-64 chars (got n)", n, << >>, << >>)
ErrNamePattern(name) ==
  Msg("name must be lowercase letters/numbers/hyphens, no start/end hyphen: s", 0, name, << >>)
WarnFolder(name, folder) == Msg("name s doesn't match folder t", 0, name, folder)
ErrMissingDescription == Msg("Missing required field: description", 0, << >>, << >>)
ErrDescriptionEmpty == Msg("description must be non-empty", 0, << >>, << >>)
ErrDescriptionLength(n) == Msg("description must be max 1024 chars (got n)", n, << >>, << >>)
WarnTrigger == Msg("description should include \"Use when...\" trigger phrases", 0, << >>, << >>)

NameMaxLen == 64
DescriptionMaxLen == 1024
TriggerPhrase == <<"u", "s", "e", " ", "w", "h", "e", "n">>

\* validateSkill, "// Validate name": with >= in place of > on line 61
nameErrorsOffByOne(fm) ==
  IF ~truthy(fm, KeyName) THEN <<ErrMissingName>>
  ELSE LET name == fm.rec[KeyName]
       IN  (IF Len(name) < 1 \/ Len(name) >= NameMaxLen
              THEN <<ErrNameLength(Len(name))>> ELSE << >>)
           \o (IF ~NAME_REGEX(name) THEN <<ErrNamePattern(name)>> ELSE << >>)

\* validateSkill, "// Validate name": the errors pushed
nameErrors(fm) ==
  IF ~truthy(fm, KeyName) THEN <<ErrMissingName>>
  ELSE LET name == fm.rec[KeyName]
       IN  (IF Len(name) < 1 \/ Len(name) > NameMaxLen
              THEN <<ErrNameLength(Len(name))>> ELSE << >>)
           \o (IF ~NAME_REGEX(name) THEN <<ErrNamePattern(name)>> ELSE << >>)

\* validateSkill, "// Validate name": without the comparison of lines 67-69
nameWarningsNone(fm, folder) == << >>

\* validateSkill, "// Validate name": the warnings pushed
nameWarnings(fm, folder) ==
  IF ~truthy(fm, KeyName) THEN << >>
  ELSE LET name == fm.rec[KeyName]
       IN  IF name # folder THEN <<WarnFolder(name, folder)>> ELSE << >>

\* validateSkill, "// Validate description": with >= in place of > on line 80
descriptionErrorsOffByOne(fm) ==
  IF ~truthy(fm, KeyDescription) THEN <<ErrMissingDescription>>
  ELSE LET desc == fm.rec[KeyDescription]
       IN  (IF Len(desc) = 0 THEN <<ErrDescriptionEmpty>> ELSE << >>)
           \o (IF Len(desc) >= DescriptionMaxLen
                 THEN <<ErrDescriptionLength(Len(desc))>> ELSE << >>)

\* validateSkill, "// Validate description": the errors pushed
descriptionErrors(fm) ==
  IF ~truthy(fm, KeyDescription) THEN <<ErrMissingDescription>>
  ELSE LET desc == fm.rec[KeyDescription]
       IN  (IF Len(desc) = 0 THEN <<ErrDescriptionEmpty>> ELSE << >>)
           \o (IF Len(desc) > DescriptionMaxLen
                 THEN <<ErrDescriptionLength(Len(desc))>> ELSE << >>)

\* validateSkill, "// Validate description": with the test of line 83 inverted
descriptionWarningsInverted(fm) ==
  IF ~truthy(fm, KeyDescription) THEN << >>
  ELSE IF includes(toLowerCase(fm.rec[KeyDescription]), TriggerPhrase)
         THEN <<WarnTrigger>> ELSE << >>

\* validateSkill, "// Validate description": with a case-sensitive search
descriptionWarningsCaseSensitive(fm) ==
  IF ~truthy(fm, KeyDescription) THEN << >>
  ELSE IF ~includes(fm.rec[KeyDescription], TriggerPhrase) THEN <<WarnTrigger>> ELSE << >>

\* validateSkill, "// Validate description": the warnings pushed
descriptionWarnings(fm) ==
  IF ~truthy(fm, KeyDescription) THEN << >>
  ELSE IF ~includes(toLowerCase(fm.rec[KeyDescription]), TriggerPhrase)
         THEN <<WarnTrigger>> ELSE << >>

\* validateSkill without the early return on a missing frontmatter
validateSkillNoReturn(c, folder) ==
  LET fm == extractFrontmatter(c)
  IN  [file |-> folder,
       errors |-> (IF fm.isNull THEN <<ErrMissingFrontmatter>> ELSE << >>)
                  \o nameErrors(fm) \o descriptionErrors(fm),
       warnings |-> nameWarnings(fm, folder) \o descriptionWarnings(fm)]

\* validateSkill with the description checked only when the name is free of errors
validateSkillNameFirst(c, folder) ==
  LET fm == extractFrontmatter(c)
  IN  IF fm.isNull
        THEN [file |-> folder, errors |-> <<ErrMissingFrontmatter>>, warnings |-> << >>]
        ELSE [file |-> folder,
              errors |-> IF nameErrors(fm) # << >> THEN nameErrors(fm)
                         ELSE descriptionErrors(fm),
              warnings |-> nameWarnings(fm, folder) \o descriptionWarnings(fm)]

\* async function validateSkill(filePath), once readFile has returned c
validateSkill(c, folder) ==
  LET fm == extractFrontmatter(c)
  IN  IF fm.isNull
        THEN [file |-> folder, errors |-> <<ErrMissingFrontmatter>>, warnings |-> << >>]
        ELSE [file |-> folder,
              errors |-> nameErrors(fm) \o descriptionErrors(fm),
              warnings |-> nameWarnings(fm, folder) \o descriptionWarnings(fm)]

EmptyResult == [file |-> << >>, errors |-> << >>, warnings |-> << >>]

----------------------------------------------------------------------------
(* Documents given to validateSkill and extractFrontmatter *)

Pads == {Rep("x", k) : k \in 0..MaxPad}

\* values written after "name:"
NameValues ==
  { <<"m", "y", "-", "s", "k", "i", "l", "l">>, <<"o", "t", "h", "e", "r">>, <<"a">>, <<"a", "-", "-", "b">>, <<"-", "b", "a", "d">>, <<"b", "a", "d", "-">>, <<"B", "a", "d">>,
    <<"m", "y", " ", "s", "k", "i", "l", "l">>, <<"'", "m", "y", "-", "s", "k", "i", "l", "l", "'">>, << >> }
  \cup {Rep("a", NameMaxLen + d) : d \in (0 - 1)..MaxPad}
  \cup {<<"a">> \o Rep("-", NameMaxLen + d - 2) \o <<"0">> : d \in 0..1}
  \cup {<<"-">> \o Rep("a", NameMaxLen)}

\* spellings of the trigger phrase, and near misses
Phrases ==
  { <<"u", "s", "e", " ", "w", "h", "e", "n">>, <<"U", "s", "e", " ", "w", "h", "e", "n">>, <<"U", "S", "E", " ", "W", "H", "E", "N">>, <<"u", "s", "e", " ", " ", "w", "h", "e", "n">>, <<"u", "s", "e", "w", "h", "e", "n">>,
    <<"u", "s", "e", " ", "u", "s", "e", " ", "w", "h", "e", "n", "w", "h", "e", "n">>, <<"U", "s", "e", " ", "w", "h", "e", "n", " ", "u", "s", "e", " ", "w", "h", "e", "n">> }

\* values written after "description:"
ShortDescriptions ==
  {p \o ph \o q : p \in Pads, ph \in Phrases, q \in Pads}
  \cup { << >>, <<" ", " ", " ">>, <<"\"", "\"">>, <<"\"", " ", "\"">>, <<"'", "U", "s", "e", " ", "w", "h", "e", "n", "'">>, <<"\"", "U", "s", "e", " ", "w", "h", "e", "n", "\"", " ", "x">>,
         <<"d", "o", "e", "s", " ", "t", "h", "i", "n", "g", "s">> }

LongDescriptions ==
  {Rep("d", DescriptionMaxLen + d) : d \in (0 - 1)..MaxPad}
  \cup {Rep("d", DescriptionMaxLen + d - 8) \o <<"U", "s", "e", " ", "w", "h", "e", "n">> : d \in (0 - 1)..MaxPad}
  \cup {<<"u", "s", "e", " ", "w", "h", "e", "n">> \o Rep("d", DescriptionMaxLen + d) : d \in 0..MaxPad}

NoLine == <<"none">>

NameLines == {NoLine} \cup {<<"n", "a", "m", "e", ":">> \o (IF v = << >> THEN v ELSE <<" ">> \o v) : v \in NameValues}
DescriptionLines(values) ==
  {<<"d", "e", "s", "c", "r", "i", "p", "t", "i", "o", "n", ":">> \o (IF v = << >> THEN v ELSE <<" ">> \o v) : v \in values}

\* a document with a frontmatter block of the given lines
FieldDocument(nameLine, descLine) ==
  <<"-", "-", "-", "\n">>
  \o (IF nameLine = NoLine THEN << >> ELSE nameLine \o <<"\n">>)
  \o (IF descLine = NoLine THEN << >> ELSE descLine \o <<"\n">>)
  \o <<"-", "-", "-", "\n", "#", " ", "T", "\n">>

FieldDocuments ==
  {FieldDocument(n, d) : n \in NameLines,
                         d \in {NoLine} \cup DescriptionLines(ShortDescriptions)}
  \cup {FieldDocument(n, d) : n \in {<<"n", "a", "m", "e", ":", " ", "m", "y", "-", "s", "k", "i", "l", "l">>, <<"n", "a", "m", "e", ":", " ", "-", "b", "a", "d">>,
                                      <<"n", "a", "m", "e", ":", " ", "-">> \o Rep("a", NameMaxLen)},
                              d \in DescriptionLines(LongDescriptions)}

\* documents that differ in their delimiters and in the shape of their lines
ShapeDocuments ==
  { << >>,
    <<"#", " ", "T", "\n">>,
    <<"-", "-", "-", "\n", "-", "-", "-", "\n">>,
    <<"-", "-", "-", "\n", "\n", "-", "-", "-", "\n">>,
    <<"-", "-", "-", "\n", "n", "a", "m", "e", ":", " ", "a", "\n", "-", "-", "-">>,
    <<"-", "-", "-", "\n", "n", "a", "m", "e", ":", " ", "a", "\n", "-", "-", "-", "x", "\n">>,
    <<"-", "-", "-", "\n", "n", "a", "m", "e", ":", " ", "a", "\n", "-", "-", "-", "-", "\n">>,
    <<"-", "-", "-", " ", "\n", "n", "a", "m", "e", ":", " ", "a", "\n", "-", "-", "-", "\n">>,
    <<"\n", "-", "-", "-", "\n", "n", "a", "m", "e", ":", " ", "a", "\n", "-", "-", "-", "\n">>,
    <<"-", "-", "-", "\n", "n", "a", "m", "e", ":", " ", "a", "\n", "-", "-", "\n">>,
    <<"-", "-", "-", "\n", "n", "a", "m", "e", ":", " ", "a", "\n">>,
    <<"-", "-", "-", "\n", "n", "a", "m", "e", ":", " ", "a", "\n", " ", "-", "-", "-", "\n", "d", "e", "s", "c", "r", "i", "p", "t", "i", "o", "n", ":", " ", "U", "s", "e", " ", "w", "h", "e", "n", "\n", "-", "-", "-", "\n">>,
    <<"-", "-", "-", "\n", "n", "a", "m", "e", ":", " ", "a", "\n", "-", "-", "-", "\n", "d", "e", "s", "c", "r", "i", "p", "t", "i", "o", "n", ":", " ", "U", "s", "e", " ", "w", "h", "e", "n", "\n", "-", "-", "-", "\n">>,
    <<"-", "-", "-", "\n", ":", " ", "x", "\n", "-", "-", "-", "\n">>,
    <<"-", "-", "-", "\n", " ", ":", " ", "x", "\n", "-", "-", "-", "\n">>,
    <<"-", "-", "-", "\n", "n", "a", "m", "e", "\n", "-", "-", "-", "\n">>,
    <<"-", "-", "-", "\n", "n", "a", "m", "e", ":", " ", "a", ":", " ", "b", "\n", "-", "-", "-", "\n">>,
    <<"-", "-", "-", "\n", "n", "a", "m", "e", ":", " ", "a", "\n", "n", "a", "m", "e", ":", " ", "b", "\n", "-", "-", "-", "\n">>,
    <<"-", "-", "-", "\n", "d", "e", "s", "c", "r", "i", "p", "t", "i", "o", "n", ":", " ", "U", "s", "e", " ", "w", "h", "e", "n", "\n", "d", "e", "s", "c", "r", "i", "p", "t", "i", "o", "n", ":", " ", "o", "t", "h", "e", "r", "\n", "-", "-", "-", "\n">>,
    <<"-", "-", "-", "\n", " ", " ", "n", "a", "m", "e", " ", ":", " ", " ", "a", " ", " ", "\n", "-", "-", "-", "\n">>,
    <<"-", "-", "-", "\n", "n", "a", "m", "e", ":", " ", "\"", "a", "\"", "\n", "-", "-", "-", "\n">>,
    <<"-", "-", "-", "\n", "n", "a", "m", "e", ":", " ", "'", "a", "'", "\n", "-", "-", "-", "\n">>,
    <<"-", "-", "-", "\n", "n", "a", "m", "e", ":", " ", "\"", "a", "'", "\n", "-", "-", "-", "\n">>,
    <<"-", "-", "-", "\n", "n", "a", "m", "e", ":", " ", "\"", "a", "\n", "-", "-", "-", "\n">>,
    <<"-", "-", "-", "\n", "n", "a", "m", "e", ":", " ", "\"", "\n", "-", "-", "-", "\n">>,
    <<"-", "-", "-", "\n", "n", "a", "m", "e", ":", " ", "'", "\n", "-", "-", "-", "\n">>,
    <<"-", "-", "-", "\n", "n", "a", "m", "e", ":", " ", "'", "'", "a", "'", "'", "\n", "-", "-", "-", "\n">> }

Documents == FieldDocuments \cup ShapeDocuments

Folders == { <<"m", "y", "-", "s", "k", "i", "l", "l">>, <<"o", "t", "h", "e", "r">> }

----------------------------------------------------------------------------
(* validateSkill applied to one document, which may then be edited *)

\* the variables of the checkers' main loops, unused here
IdleMain ==
  /\ fs = << >>
  /\ files = << >>
  /\ queue = << >>
  /\ results = << >>
  /\ errorCount = 0
  /\ warningCount = 0
  /\ existingSkills = {}
  /\ issues = << >>
  /\ noRelatedSection = << >>
  /\ missing = << >>
  /\ verbose = FALSE
  /\ record = << >>
  /\ checker = 0
  /\ stdout = << >>
  /\ exitCode = -1

UnchangedMain ==
  UNCHANGED <<fs, files, queue, results, errorCount, warningCount, existingSkills,
              issues, noRelatedSection, missing, verbose, record, checker, stdout,
              exitCode>>

InitValidate ==
  /\ pc = "read"
  /\ content \in Documents
  /\ folderName \in Folders
  /\ frontmatter = Null
  /\ result = EmptyResult
  /\ prev = EmptyResult
  /\ edited = FALSE
  /\ IdleMain

\* validateSkill, line 49: const frontmatter = extractFrontmatter(content)
Extract ==
  /\ pc = "read"
  /\ frontmatter' = extractFrontmatter(content)
  /\ pc' = "extracted"
  /\ UNCHANGED <<content, folderName, result, prev, edited>>
  /\ UnchangedMain

\* validateSkill, lines 51-88: the checks, up to the returned result
Validate ==
  /\ pc = "extracted"
  /\ result' = validateSkill(content, folderName)
  /\ pc' = "validated"
  /\ UNCHANGED <<content, folderName, frontmatter, prev, edited>>
  /\ UnchangedMain

\* c without the n characters that follow position p
deleteAt(c, p, n) == SubSeq(c, 1, p) \o SubSeq(c, p + n + 1, Len(c))

\* the frontmatter records differ in the description and in nothing else
onlyDescriptionDiffers(fm1, fm2) ==
  /\ ~fm1.isNull /\ ~fm2.isNull
  /\ DOMAIN fm1.rec = DOMAIN fm2.rec
  /\ KeyDescription \in DOMAIN fm1.rec
  /\ \A k \in DOMAIN fm1.rec : k # KeyDescription => fm1.rec[k] = fm2.rec[k]
  /\ fm1.rec[KeyDescription] # fm2.rec[KeyDescription]

\* an author deletes one occurrence of the trigger phrase from the description
\* of a validated document and leaves the rest of the file alone
RemoveTrigger ==
  /\ pc = "validated"
  /\ ~edited
  /\ truthy(frontmatter, KeyDescription)
  /\ includes(toLowerCase(frontmatter.rec[KeyDescription]), TriggerPhrase)
  /\ \E p \in 0..(Len(content) - Len(TriggerPhrase)) :
        /\ toLowerCase(SubSeq(content, p + 1, p + Len(TriggerPhrase))) = TriggerPhrase
        /\ onlyDescriptionDiffers(frontmatter,
                                  extractFrontmatter(deleteAt(content, p, Len(TriggerPhrase))))
        /\ content' = deleteAt(content, p, Len(TriggerPhrase))
  /\ prev' = result
  /\ edited' = TRUE
  /\ pc' = "read"
  /\ UNCHANGED <<folderName, frontmatter, result>>
  /\ UnchangedMain

NextValidate == Extract \/ Validate \/ RemoveTrigger

SpecValidate == InitValidate /\ [][NextValidate]_vars

----------------------------------------------------------------------------
(* Claims about validateSkill and extractFrontmatter (SpecValidate) *)

\* C2: when extractFrontmatter returned null, the result holds exactly the
\* missing-frontmatter error and no warning: no name or description check adds
\* anything.
C2_AbsentFrontmatterSingleError ==
  (pc = "validated" /\ frontmatter.isNull) =>
     /\ result.errors = <<ErrMissingFrontmatter>>
     /\ result.warnings = << >>

\* a document with name and description lines but no closing delimiter was validated
C2_Witness ==
  /\ pc = "validated"
  /\ frontmatter.isNull
  /\ includes(content, <<"n", "a", "m", "e", ":">>)
  /\ result.errors = <<ErrMissingFrontmatter>>

\* the documents the specification describes: a first line that is exactly ---,
\* one or more lines, then a line that is exactly ---
wellDelimited(c) ==
  LET ls == split(c)
  IN  /\ Len(ls) >= 3
      /\ ls[1] = <<"-", "-", "-">>
      /\ \E k \in 3..Len(ls) : ls[k] = <<"-", "-", "-">>

\* the lines between the opening line and the first later line that is exactly ---
delimitedBlock(c) ==
  LET ls == split(c)
      k == Min({j \in 3..Len(ls) : ls[j] = <<"-", "-", "-">>})
  IN  SubSeq(ls, 2, k - 1)

\* C3: extractFrontmatter returns a record exactly for the documents that begin
\* with a ----only line, one or more lines and a ----only line, and the block
\* it parses ends at the first such closing line.
C3_RecordIffDelimited ==
  (pc = "extracted") =>
     /\ ~frontmatter.isNull <=> wellDelimited(content)
     /\ wellDelimited(content) => split(frontmatterBlock(content)) = delimitedBlock(content)

\* C4: a description key whose value is empty or all white space gives the
\* error "description must be non-empty".
C4_EmptyDescriptionError ==
  (/\ pc = "validated"
   /\ ~frontmatter.isNull
   /\ KeyDescription \in DOMAIN frontmatter.rec
   /\ trim(frontmatter.rec[KeyDescription]) = << >>)
  => ErrDescriptionEmpty \in Range(result.errors)

\* the result of the edited document has the trigger warning as its one new
\* warning and no more errors than before
oneMoreWarning ==
  /\ result.warnings = prev.warnings \o <<WarnTrigger>>
  /\ Len(result.errors) <= Len(prev.errors)

\* C5 as stated: removing "use when" from a description that contained it gives
\* exactly one more warning and no additional error.
C5_RemovalAddsOneWarning ==
  (pc = "validated" /\ edited) => oneMoreWarning

\* C5 as amended: the same, when what is left of the description is non-empty
\* and no longer contains "use when".
C5_RemovalAddsOneWarningIfGone ==
  (/\ pc = "validated"
   /\ edited
   /\ truthy(frontmatter, KeyDescription)
   /\ ~includes(toLowerCase(frontmatter.rec[KeyDescription]), TriggerPhrase))
  => oneMoreWarning

\* an edited document whose description lost its only trigger phrase was validated
C5_Witness ==
  /\ pc = "validated"
  /\ edited
  /\ truthy(frontmatter, KeyDescription)
  /\ ~includes(toLowerCase(frontmatter.rec[KeyDescription]), TriggerPhrase)
  /\ WarnTrigger \in Range(result.warnings)
  /\ WarnTrigger \notin Range(prev.warnings)

\* C6: with a present, non-empty description the trigger warning is produced
\* exactly when the lower-cased description does not contain "use when",
\* wherever and in whatever case the phrase is written; it is produced at most
\* once and never as an error.
C6_TriggerWarningIffPhraseAbsent ==
  (pc = "validated" /\ truthy(frontmatter, KeyDescription)) =>
     /\ WarnTrigger \in Range(result.warnings)
          <=> ~includes(toLowerCase(frontmatter.rec[KeyDescription]), TriggerPhrase)
     /\ Cardinality({i \in 1..Len(result.warnings) : result.warnings[i] = WarnTrigger}) <= 1
     /\ WarnTrigger \notin Range(result.errors)

\* a description with the phrase in capitals, not at its start, gave no warning
C6_Witness ==
  /\ pc = "validated"
  /\ truthy(frontmatter, KeyDescription)
  /\ includes(frontmatter.rec[KeyDescription], <<"x", "U", "S", "E", " ", "W", "H", "E", "N">>)
  /\ WarnTrigger \notin Range(result.warnings)

----------------------------------------------------------------------------
(* The skills root *)

\* one entry of plugins/bknd-skills/skills: doc says what readFile of its
\* SKILL.md does: "ok" (returns text), "unreadable" (the file exists and the
\* read throws), "absent" (there is no such file and the read throws)
Entry(isDir, doc, text) == [isDir |-> isDir, doc |-> doc, text |-> text]

\* the characters of entry names in the order of their UTF-16 code units
CharOrder ==
  <<"-", "/", "0", "1", "2", "3", "4", "5", "6", "7", "8", "9",
    "a", "b", "c", "d", "e", "f", "g", "h", "i", "j", "k", "l", "m",
    "n", "o", "p", "q", "r", "s", "t", "u", "v", "w", "x", "y", "z">>

Code(c) == CHOOSE i \in 1..Len(CharOrder) : CharOrder[i] = c

\* a < b in the order Array.prototype.sort and localeCompare give these strings
lexLess(a, b) ==
  \/ /\ Len(a) < Len(b)
     /\ SubSeq(b, 1, Len(a)) = a
  \/ \E i \in 1..Min({Len(a), Len(b)}) :
        /\ SubSeq(a, 1, i - 1) = SubSeq(b, 1, i - 1)
        /\ Code(a[i]) < Code(b[i])

\* the elements of the set S in ascending order of their keys: key is a
\* function on S that gives the string an element is compared by
sorted(S, key) ==
  [i \in 1..Cardinality(S) |->
     CHOOSE x \in S : Cardinality({y \in S : lexLess(key[y], key[x])}) = i - 1]

\* every order in which the elements of S can be enumerated
Orders(S) == {s \in [1..Cardinality(S) -> S] : Range(s) = S}

\* the part of "plugins/bknd-skills/skills/<folder>/SKILL.md" that decides the
\* order of two paths: the folder and the separator after it
pathTail(folder) == folder \o <<"/">>

----------------------------------------------------------------------------
(* Checker 1: main *)

\* one line of output
Line(tag, file, msg, a, b, c) ==
  [tag |-> tag, file |-> file, msg |-> msg, a |-> a, b |-> b, c |-> c]

NoMsg == Msg("", 0, << >>, << >>)

LineValidating(n) == Line("Validating n SKILL.md files...", << >>, NoMsg, n, 0, 0)
LineFile(f) == Line("shortPath:", f, NoMsg, 0, 0, 0)
LineError(m) == Line("error", << >>, m, 0, 0, 0)
LineWarning(m) == Line("warning", << >>, m, 0, 0, 0)
LineTotal(n, e, w) == Line("Total: n files, e errors, w warnings", << >>, NoMsg, n, e, w)
LineFailed == Line("Validation FAILED", << >>, NoMsg, 0, 0, 0)
LinePassed == Line("Validation PASSED", << >>, NoMsg, 0, 0, 0)

\* main, lines 113-124: the lines printed for one result
resultLines(r) ==
  IF Len(r.errors) > 0 \/ Len(r.warnings) > 0
    THEN <<LineFile(r.file)>>
         \o [i \in 1..Len(r.errors) |-> LineError(r.errors[i])]
         \o [i \in 1..Len(r.warnings) |-> LineWarning(r.warnings[i])]
    ELSE << >>

RECURSIVE reportLines(_)
\* main, lines 113-124: the lines printed for all results, in their order
reportLines(rs) ==
  IF rs = << >> THEN << >> ELSE resultLines(Head(rs)) \o reportLines(Tail(rs))

\* the folders a run of checker 1 can find under the skills root
MetaFolderNames == << <<"a">>, <<"a", "-", "b">>, <<"b">>, <<"c">> >>
MetaFolders == {MetaFolderNames[i] : i \in 1..MaxFiles}

\* the documents those folders hold
MetaDocuments ==
  { <<"-", "-", "-", "\n", "n", "a", "m", "e", ":", " ", "a", "\n", "d", "e", "s", "c", "r", "i", "p", "t", "i", "o", "n", ":", " ", "U", "s", "e", " ", "w", "h", "e", "n", " ", "x", "\n", "-", "-", "-", "\n">>,
    <<"-", "-", "-", "\n", "n", "a", "m", "e", ":", " ", "a", "\n", "d", "e", "s", "c", "r", "i", "p", "t", "i", "o", "n", ":", " ", "x", "\n", "-", "-", "-", "\n">>,
    <<"-", "-", "-", "\n", "n", "a", "m", "e", ":", " ", "a", "\n", "-", "-", "-", "\n">>,
    <<"-", "-", "-", "\n", "n", "a", "m", "e", ":", " ", "-", "A", "\n", "-", "-", "-">>,
    << >> }

MetaEntries ==
  {Entry(TRUE, "ok", d) : d \in MetaDocuments}
  \cup {Entry(TRUE, "unreadable", << >>), Entry(TRUE, "absent", << >>)}

\* the files the glob plugins/bknd-skills/skills/*/SKILL.md matches
discovered(f) == {n \in DOMAIN f : f[n].isDir /\ f[n].doc # "absent"}

\* the variables of the single-document specification and of checker 2
IdleOthers1 ==
  /\ prev = EmptyResult
  /\ edited = FALSE
  /\ existingSkills = {}
  /\ issues = << >>
  /\ noRelatedSection = << >>
  /\ missing = << >>
  /\ verbose = FALSE
  /\ record = << >>
  /\ checker = 1

UnchangedOthers1 ==
  UNCHANGED <<prev, edited, existingSkills, issues, noRelatedSection, missing,
              verbose, record, checker>>

InitMeta ==
  /\ pc = "scan"
  /\ \E D \in SUBSET MetaFolders : fs \in [D -> MetaEntries]
  /\ content = << >>
  /\ folderName = << >>
  /\ frontmatter = Null
  /\ result = EmptyResult
  /\ files = << >>
  /\ queue = << >>
  /\ results = << >>
  /\ errorCount = 0
  /\ warningCount = 0
  /\ stdout = << >>
  /\ exitCode = -1
  /\ IdleOthers1

\* main, lines 92-99: glob.scan yields the matching files in some order
MetaScan ==
  /\ pc = "scan"
  /\ files' \in Orders(discovered(fs))
  /\ stdout' = stdout \o <<LineValidating(Len(files'))>>
  /\ pc' = "sort"
  /\ UNCHANGED <<content, folderName, frontmatter, result, fs, queue, results,
                 errorCount, warningCount, exitCode>>
  /\ UnchangedOthers1

\* main, line 105: files.sort()
MetaSort ==
  /\ pc = "sort"
  /\ files' = sorted(Range(files), [f \in Range(files) |-> pathTail(f)])
  /\ queue' = files'
  /\ pc' = "loop"
  /\ UNCHANGED <<content, folderName, frontmatter, result, fs, results,
                 errorCount, warningCount, stdout, exitCode>>
  /\ UnchangedOthers1

\* main, lines 106-109, counting the files with errors instead of the errors
MetaValidateCountsFiles ==
  /\ pc = "loop"
  /\ queue # << >>
  /\ fs[Head(queue)].doc = "ok"
  /\ content' = fs[Head(queue)].text
  /\ folderName' = Head(queue)
  /\ frontmatter' = extractFrontmatter(content')
  /\ result' = validateSkill(content', folderName')
  /\ results' = Append(results, result')
  /\ errorCount' = errorCount + (IF Len(result'.errors) > 0 THEN 1 ELSE 0)
  /\ warningCount' = warningCount + Len(result'.warnings)
  /\ queue' = Tail(queue)
  /\ UNCHANGED <<pc, fs, files, stdout, exitCode>>
  /\ UnchangedOthers1

\* main, lines 106-109: one iteration of the loop, readFile returning the text
MetaValidate ==
  /\ pc = "loop"
  /\ queue # << >>
  /\ fs[Head(queue)].doc = "ok"
  /\ content' = fs[Head(queue)].text
  /\ folderName' = Head(queue)
  /\ frontmatter' = extractFrontmatter(content')
  /\ result' = validateSkill(content', folderName')
  /\ results' = Append(results, result')
  /\ errorCount' = errorCount + Len(result'.errors)
  /\ warningCount' = warningCount + Len(result'.warnings)
  /\ queue' = Tail(queue)
  /\ UNCHANGED <<pc, fs, files, stdout, exitCode>>
  /\ UnchangedOthers1

\* validateSkill, line 46: readFile throws; nothing catches it up to main() on
\* line 138, and the runtime ends the process with code 1
MetaReadFails ==
  /\ pc = "loop"
  /\ queue # << >>
  /\ fs[Head(queue)].doc # "ok"
  /\ pc' = "crashed"
  /\ exitCode' = 1
  /\ UNCHANGED <<content, folderName, frontmatter, result, fs, files, queue, results,
                 errorCount, warningCount, stdout>>
  /\ UnchangedOthers1

\* main, lines 112-135: the lines printed after the loop
metaReport(rs, n, e, w) ==
  reportLines(rs) \o <<LineTotal(n, e, w)>> \o <<IF e > 0 THEN LineFailed ELSE LinePassed>>

\* main, lines 112-135: the report, the summary and the exit code
MetaReport ==
  /\ pc = "loop"
  /\ queue = << >>
  /\ stdout' = stdout \o metaReport(results, Len(files), errorCount, warningCount)
  /\ exitCode' = IF errorCount > 0 THEN 1 ELSE 0
  /\ pc' = "done"
  /\ UNCHANGED <<content, folderName, frontmatter, result, fs, files, queue, results,
                 errorCount, warningCount>>
  /\ UnchangedOthers1

NextMeta == MetaScan \/ MetaSort \/ MetaValidate \/ MetaReadFails \/ MetaReport

SpecMeta == InitMeta /\ [][NextMeta]_vars

RECURSIVE sumErrors(_)
\* the sum of the error counts of the per-file results
sumErrors(rs) ==
  IF rs = << >> THEN 0 ELSE Len(Head(rs).errors) + sumErrors(Tail(rs))

\* C1: when checker 1 has ended, its exit code is 1 exactly when the error
\* counts of the per-file results add up to more than 0.
C1_ExitOneIffErrors ==
  (pc \in {"done", "crashed"}) => (exitCode = 1 <=> sumErrors(results) > 0)

----------------------------------------------------------------------------
(* Checker 2: extractRelatedSkills *)

\* [a-z0-9-]
IdChars == LowerAlnum \cup {"-"}

RelatedHeading == <<"#", "#", " ", "r", "e", "l", "a", "t", "e", "d", " ", "s", "k", "i", "l", "l", "s">>
Prefix == <<"b", "k", "n", "d", "-">>

\* the text of s at position p (1-based) is t
at(s, p, t) == p >= 1 /\ p + Len(t) - 1 <= Len(s) /\ SubSeq(s, p, p + Len(t) - 1) = t

\* the number of characters of [a-z0-9-] in a row from position p on
idRun(s, p) ==
  LET stop == {q \in p..Len(s) : s[q] \notin IdChars}
  IN  IF stop = {} THEN Len(s) - p + 1 ELSE Min(stop) - p

\* the elements f[p] for the positions p of P, in ascending order of p
inOrder(P, f) ==
  [k \in 1..Cardinality(P) |->
     f[CHOOSE p \in P : Cardinality({q \in P : q < p}) = k - 1]]

\* content.toLowerCase().includes("## related skills")
hasRelatedHeading(c) == includes(toLowerCase(c), RelatedHeading)

\* the match without the lookahead (?=\n## ): from the heading to the end
relatedSectionToEnd(c) ==
  LET low == toLowerCase(c)
      first == Min({p \in 1..Len(c) : at(low, p, RelatedHeading)})
  IN  SubSeq(c, first, Len(c))

\* content.match(/## Related Skills[\s\S]*?(?=\n## |$)/i)[0]
relatedSection(c) ==
  LET low == toLowerCase(c)
      first == Min({p \in 1..Len(c) : at(low, p, RelatedHeading)})
      after == first + Len(RelatedHeading)
      stops == {q \in after..Len(c) : at(c, q, <<"\n", "#", "#", " ">>)}
  IN  SubSeq(c, first, IF stops = {} THEN Len(c) ELSE Min(stops) - 1)

\* /\*\*(bknd-[a-z0-9-]+)\*\*/ matches at position p of s
boldAt(s, p) ==
  /\ at(s, p, <<"*", "*", "b", "k", "n", "d", "-">>)
  /\ idRun(s, p + 7) >= 1
  /\ at(s, p + 7 + idRun(s, p + 7), <<"*", "*">>)

RECURSIVE boldFrom(_, _)
\* the captures of /\*\*(bknd-[a-z0-9-]+)\*\*/g from position p on: after a
\* match the search goes on behind it
boldFrom(s, p) ==
  IF p > Len(s) THEN << >>
  ELSE IF boldAt(s, p)
         THEN <<SubSeq(s, p + 2, p + 6 + idRun(s, p + 7))>>
              \o boldFrom(s, p + 9 + idRun(s, p + 7))
         ELSE boldFrom(s, p + 1)

\* the number of * in a row from position p on, two at most: \*?\*?
stars(s, p) ==
  IF at(s, p, <<"*", "*">>) THEN 2 ELSE IF at(s, p, <<"*">>) THEN 1 ELSE 0

\* /^- \*?\*?(bknd-[a-z0-9-]+)\*?\*?/m matches at position p of s
itemAt(s, p) ==
  /\ p = 1 \/ s[p - 1] = "\n"
  /\ at(s, p, <<"-", " ">>)
  /\ at(s, p + 2 + stars(s, p + 2), Prefix)
  /\ idRun(s, p + 7 + stars(s, p + 2)) >= 1

itemCapture(s, p) ==
  LET b == p + 2 + stars(s, p + 2)
  IN  SubSeq(s, b, b + 4 + idRun(s, b + 5))

\* /\[(bknd-[a-z0-9-]+)\]/ matches at position p of s
linkAt(s, p) ==
  /\ at(s, p, <<"[", "b", "k", "n", "d", "-">>)
  /\ idRun(s, p + 6) >= 1
  /\ at(s, p + 6 + idRun(s, p + 6), <<"]">>)

linkCapture(s, p) == SubSeq(s, p + 1, p + 5 + idRun(s, p + 6))

\* [...new Set(skills)]: the first occurrence of every element, in order
distinct(seq) ==
  LET keep == {i \in 1..Len(seq) : \A j \in 1..(i - 1) : seq[j] # seq[i]}
  IN  inOrder(keep, [i \in keep |-> seq[i]])

\* the positions of section at which the pattern matches
itemPositions(section) == {p \in 1..Len(section) : itemAt(section, p)}
linkPositions(section) == {p \in 1..Len(section) : linkAt(section, p)}

\* the loop over the patterns without the third one, the links
relatedCapturesNoLinks(section) ==
  boldFrom(section, 1)
  \o inOrder(itemPositions(section),
             [p \in itemPositions(section) |-> itemCapture(section, p)])

\* the loop over the three patterns, lines 170-181
relatedCaptures(section) ==
  boldFrom(section, 1)
  \o inOrder(itemPositions(section),
             [p \in itemPositions(section) |-> itemCapture(section, p)])
  \o inOrder(linkPositions(section),
             [p \in linkPositions(section) |-> linkCapture(section, p)])

\* function extractRelatedSkills(content)
extractRelatedSkills(c) ==
  IF ~\E p \in 1..Len(c) : at(toLowerCase(c), p, RelatedHeading) THEN << >>
  ELSE distinct(relatedCaptures(relatedSection(c)))

\* referenced.filter(ref => !existingSkills.has(ref))
missingOf(c, existing) ==
  LET referenced == extractRelatedSkills(c)
      keep == {i \in 1..Len(referenced) : referenced[i] \notin existing}
  IN  inOrder(keep, [i \in keep |-> referenced[i]])

----------------------------------------------------------------------------
(* Checker 2: main *)

LineFound(n) == Line("Found n skills", << >>, NoMsg, n, 0, 0)
LineCaught == Line("console.error(err)", << >>, NoMsg, 0, 0, 0)
LineCannotRead(skill) == Line("Cannot read: skillPath", skill, NoMsg, 0, 0, 0)
LineNoSectionHead == Line("Skills WITHOUT Related Skills section:", << >>, NoMsg, 0, 0, 0)
LineNoSection(skill) == Line("  - s", skill, NoMsg, 0, 0, 0)
LineBrokenHead == Line("Skills with BROKEN Related Skills links:", << >>, NoMsg, 0, 0, 0)
LineBrokenSkill(skill) == Line("  skill:", skill, NoMsg, 0, 0, 0)
LineBroken(m) == Line("m (not found)", m, NoMsg, 0, 0, 0)
LineBlank == Line("", << >>, NoMsg, 0, 0, 0)
LineAllValid == Line("All Related Skills links are valid!", << >>, NoMsg, 0, 0, 0)

\* the names of the entries of the skills root
SkillNames == << <<"b", "k", "n", "d", "-", "a">>, <<"b", "k", "n", "d", "-", "b">>, <<"b", "k", "n", "d", "-", "c">>, <<"b", "k", "n", "d", "-", "d">> >>
RootNames == {SkillNames[i] : i \in 1..MaxSkills}

\* the documents of the skills
RelatedDocuments ==
  { <<"#", " ", "T", "\n">>,
    <<"#", "#", " ", "R", "e", "l", "a", "t", "e", "d", " ", "S", "k", "i", "l", "l", "s", "\n", "-", " ", "*", "*", "b", "k", "n", "d", "-", "a", "*", "*", "\n", "-", " ", "*", "*", "b", "k", "n", "d", "-", "b", "*", "*", "\n">>,
    <<"#", "#", " ", "R", "e", "l", "a", "t", "e", "d", " ", "S", "k", "i", "l", "l", "s", "\n", "-", " ", "b", "k", "n", "d", "-", "x", ":", " ", "t", "\n", "[", "b", "k", "n", "d", "-", "x", "]", " ", "*", "*", "b", "k", "n", "d", "-", "x", "*", "*", "\n">>,
    <<"#", "#", " ", "r", "e", "l", "a", "t", "e", "d", " ", "s", "k", "i", "l", "l", "s", "\n", "*", "*", "b", "k", "n", "d", "-", "b", "*", "*", " ", "[", "b", "k", "n", "d", "-", "y", "]", "\n", "#", "#", " ", "N", "e", "x", "t", "\n", "*", "*", "b", "k", "n", "d", "-", "z", "*", "*", "\n">>,
    <<"#", " ", "T", "\n", "#", "#", " ", "R", "e", "l", "a", "t", "e", "d", " ", "S", "k", "i", "l", "l", "s", "\n", "s", "e", "e", " ", "b", "k", "n", "d", "-", "x", "\n">>,
    <<"#", "#", " ", "R", "e", "l", "a", "t", "e", "d", " ", "S", "k", "i", "l", "l", "s", "\n", "-", " ", "*", "b", "k", "n", "d", "-", "y", "*", "\n", "-", " ", "*", "*", "b", "k", "n", "d", "-", "x", "*", "*", "\n">>,
    <<"#", "#", "#", " ", "R", "e", "l", "a", "t", "e", "d", " ", "S", "k", "i", "l", "l", "s", "\n", "[", "b", "k", "n", "d", "-", "a", "b", "]", " ", "[", "b", "k", "n", "d", "-", "c", "]", "\n">> }

RootEntries ==
  {Entry(TRUE, "ok", d) : d \in RelatedDocuments}
  \cup {Entry(TRUE, "unreadable", << >>), Entry(TRUE, "absent", << >>),
        Entry(FALSE, "absent", << >>)}

\* a listing that keeps only the directories whose document can be read
getExistingSkillsReadable(f) == {n \in DOMAIN f : f[n].isDir /\ f[n].doc = "ok"}

\* getExistingSkills: the names of the entries that are directories
getExistingSkills(f) == {n \in DOMAIN f : f[n].isDir}

\* the variables of the single-document specification and of checker 1
IdleOthers2 ==
  /\ content = << >>
  /\ folderName = << >>
  /\ frontmatter = Null
  /\ result = EmptyResult
  /\ prev = EmptyResult
  /\ edited = FALSE
  /\ files = << >>
  /\ results = << >>
  /\ errorCount = 0
  /\ warningCount = 0
  /\ missing = << >>
  /\ verbose = FALSE
  /\ record = << >>
  /\ checker = 2

UnchangedOthers2 ==
  UNCHANGED <<folderName, frontmatter, result, prev, edited, files, results,
              errorCount, warningCount, missing, verbose, record, checker>>

InitRelated ==
  /\ pc = "list"
  /\ \E D \in SUBSET RootNames : fs \in [D -> RootEntries]
  /\ queue = << >>
  /\ existingSkills = {}
  /\ issues = << >>
  /\ noRelatedSection = << >>
  /\ stdout = << >>
  /\ exitCode = -1
  /\ IdleOthers2

\* main, lines 187-193: readdir returns the entries in some order, which is the
\* order in which the Set is iterated
RelatedList ==
  /\ pc = "list"
  /\ existingSkills' = getExistingSkills(fs)
  /\ stdout' = stdout \o <<LineFound(Cardinality(existingSkills'))>>
  /\ queue' \in Orders(existingSkills')
  /\ pc' = "loop"
  /\ UNCHANGED <<content, fs, issues, noRelatedSection, exitCode>>
  /\ UnchangedOthers2

\* getExistingSkills, line 151: readdir throws; main().catch(console.error) on
\* line 241 prints the error and the process ends normally
RelatedListFails ==
  /\ pc = "list"
  /\ stdout' = stdout \o <<LineCaught>>
  /\ exitCode' = 0
  /\ pc' = "done"
  /\ UNCHANGED <<content, fs, queue, existingSkills, issues, noRelatedSection>>
  /\ UnchangedOthers2

\* main, lines 196-201 with the exception left uncaught by the loop: it reaches
\* main().catch(console.error)
RelatedCannotReadAborts ==
  /\ pc = "loop"
  /\ queue # << >>
  /\ fs[Head(queue)].doc # "ok"
  /\ stdout' = stdout \o <<LineCaught>>
  /\ exitCode' = 0
  /\ pc' = "done"
  /\ UNCHANGED <<content, fs, queue, existingSkills, issues, noRelatedSection>>
  /\ UnchangedOthers2

\* main, lines 196-201: readFile throws, the skill is logged and skipped
RelatedCannotRead ==
  /\ pc = "loop"
  /\ queue # << >>
  /\ fs[Head(queue)].doc # "ok"
  /\ stdout' = stdout \o <<LineCannotRead(Head(queue))>>
  /\ queue' = Tail(queue)
  /\ UNCHANGED <<pc, content, fs, existingSkills, issues, noRelatedSection, exitCode>>
  /\ UnchangedOthers2

\* main, lines 203-207: the document has no Related Skills heading
RelatedNoSection ==
  /\ pc = "loop"
  /\ queue # << >>
  /\ fs[Head(queue)].doc = "ok"
  /\ content' = fs[Head(queue)].text
  /\ ~hasRelatedHeading(content')
  /\ noRelatedSection' = Append(noRelatedSection, Head(queue))
  /\ queue' = Tail(queue)
  /\ UNCHANGED <<pc, fs, existingSkills, issues, stdout, exitCode>>
  /\ UnchangedOthers2

\* main, lines 209-214: the references of the section are resolved
RelatedCheck ==
  /\ pc = "loop"
  /\ queue # << >>
  /\ fs[Head(queue)].doc = "ok"
  /\ content' = fs[Head(queue)].text
  /\ hasRelatedHeading(content')
  /\ issues' = IF missingOf(content', existingSkills) # << >>
                 THEN Append(issues, [skill |-> Head(queue),
                                      missing |-> missingOf(content', existingSkills)])
                 ELSE issues
  /\ queue' = Tail(queue)
  /\ UNCHANGED <<pc, fs, existingSkills, noRelatedSection, stdout, exitCode>>
  /\ UnchangedOthers2

\* main, lines 218-224: the skills without the section, sorted
noSectionLines(names) ==
  IF Len(names) > 0
    THEN <<LineNoSectionHead>>
         \o [i \in 1..Len(names) |-> LineNoSection(sorted(Range(names), [n \in Range(names) |-> n])[i])]
         \o <<LineBlank>>
    ELSE << >>

\* main, lines 229-232: the lines of one skill with broken links
brokenLines(issue) ==
  <<LineBrokenSkill(issue.skill)>>
  \o [i \in 1..Len(issue.missing) |-> LineBroken(issue.missing[i])]

RECURSIVE brokenReport(_)
brokenReport(is) ==
  IF is = << >> THEN << >> ELSE brokenLines(Head(is)) \o brokenReport(Tail(is))

\* issues.sort((a, b) => a.skill.localeCompare(b.skill)): a skill has one issue at most
sortedIssues(is) == sorted(Range(is), [x \in Range(is) |-> x.skill])

\* main, lines 226-238: the broken links, or the closing line
issuesLines(is) ==
  IF Len(is) > 0
    THEN <<LineBrokenHead>> \o brokenReport(sortedIssues(is)) \o <<LineBlank>>
    ELSE <<LineAllValid>>

\* an exit code that fails the run when either list has an element
relatedExitCodeEither(is, noSection) ==
  IF Len(is) > 0 \/ Len(noSection) > 0 THEN 1 ELSE 0

\* main, lines 226-239: process.exit(1) in the branch of the broken links only
relatedExitCode(is, noSection) == IF Len(is) > 0 THEN 1 ELSE 0

\* main, lines 217-239: the report and the exit code
RelatedReport ==
  /\ pc = "loop"
  /\ queue = << >>
  /\ stdout' = stdout \o noSectionLines(noRelatedSection) \o issuesLines(issues)
  /\ exitCode' = relatedExitCode(issues, noRelatedSection)
  /\ pc' = "done"
  /\ UNCHANGED <<content, fs, queue, existingSkills, issues, noRelatedSection>>
  /\ UnchangedOthers2

NextRelated ==
  \/ RelatedList
  \/ RelatedListFails
  \/ RelatedCannotRead
  \/ RelatedNoSection
  \/ RelatedCheck
  \/ RelatedReport

SpecRelated == InitRelated /\ [][NextRelated]_vars

----------------------------------------------------------------------------
(* Claims about checker 2 (SpecRelated) *)

\* checker 2 has ended after readdir returned the entries
relatedEnded == pc = "done" /\ stdout # << >> /\ stdout[1] = LineFound(Cardinality(existingSkills))

\* C7: a run of checker 2 in which a skill lacks the Related Skills section, or
\* in which a skill has an unresolved reference, ends with exit code 1.
C7_EitherBucketFails ==
  (relatedEnded /\ (Len(noRelatedSection) > 0 \/ Len(issues) > 0)) => exitCode = 1

\* C8: checker 2 ends with exit code 1 only when a broken reference was
\* recorded; when skills lack the section and no reference is broken, they are
\* listed and the exit code is 0.
C8_ExitOneOnlyOnBrokenReference ==
  (pc = "done") =>
     /\ exitCode = 1 => \E i \in 1..Len(issues) : Len(issues[i].missing) > 0
     /\ (Len(noRelatedSection) > 0 /\ Len(issues) = 0) =>
           /\ exitCode = 0
           /\ LineNoSectionHead \in Range(stdout)
           /\ \A s \in Range(noRelatedSection) : LineNoSection(s) \in Range(stdout)

\* a run listed skills without the section, found no broken link and ended with 0
C8_Witness ==
  /\ relatedEnded
  /\ Len(noRelatedSection) > 0
  /\ Len(issues) = 0
  /\ LineNoSectionHead \in Range(stdout)
  /\ exitCode = 0

\* the identifiers the documents can mention
Identifiers ==
  { <<"b", "k", "n", "d", "-", "a">>, <<"b", "k", "n", "d", "-", "b">>, <<"b", "k", "n", "d", "-", "c">>, <<"b", "k", "n", "d", "-", "d">>, <<"b", "k", "n", "d", "-", "a", "b">>,
    <<"b", "k", "n", "d", "-", "x">>, <<"b", "k", "n", "d", "-", "y">>, <<"b", "k", "n", "d", "-", "z">> }

\* the lines of the Related Skills section: from the first line that holds the
\* heading up to the line before the next level-2 heading
sectionLines(c) ==
  LET ls == split(c)
      h == Min({k \in 1..Len(ls) : includes(toLowerCase(ls[k]), RelatedHeading)})
      next == {k \in (h + 1)..Len(ls) : at(ls[k], 1, <<"#", "#", " ">>)}
  IN  SubSeq(ls, h, IF next = {} THEN Len(ls) ELSE Min(next) - 1)

\* id is written in bold, as the first token of a list item, or in brackets
appearsIn(ls, id) ==
  \E k \in 1..Len(ls) :
     \/ includes(ls[k], <<"*", "*">> \o id \o <<"*", "*">>)
     \/ includes(ls[k], <<"[">> \o id \o <<"]">>)
     \/ \E n \in 0..2 :
          LET token == <<"-", " ">> \o Rep("*", n) \o id
          IN  /\ at(ls[k], 1, token)
              /\ Len(ls[k]) > Len(token) => ls[k][Len(token) + 1] \notin IdChars

\* the lines printed under the heading line of skill s in the list of broken links
printedUnder(s) ==
  LET q == Min({i \in 1..Len(stdout) : stdout[i] = LineBrokenSkill(s)})
      stop == {i \in (q + 1)..Len(stdout) : stdout[i].tag # "m (not found)"}
  IN  SubSeq(stdout, q + 1, IF stop = {} THEN Len(stdout) ELSE Min(stop) - 1)

unreadableSkills(f) == {s \in getExistingSkills(f) : f[s].doc # "ok"}

\* the skills root without the entry u
without(f, u) == [n \in DOMAIN f \ {u} |-> f[n]]

\* main, lines 193-207: the skills a run over f puts in noRelatedSection
skillsNoSection(f) ==
  {s \in getExistingSkills(f) : f[s].doc = "ok" /\ ~hasRelatedHeading(f[s].text)}

\* main, lines 193-215: the entries a run over f puts in issues when the
\* references are resolved against existing
skillsIssues(f, existing) ==
  {[skill |-> s, missing |-> missingOf(f[s].text, existing)] :
     s \in {t \in getExistingSkills(f) :
              /\ f[t].doc = "ok"
              /\ hasRelatedHeading(f[t].text)
              /\ missingOf(f[t].text, existing) # << >>}}

\* the run logged u, and its lists and exit code are those of the skills root g
\* with the references resolved against existing
skippedAs(u, g, existing) ==
  /\ LineCannotRead(u) \in Range(stdout)
  /\ Range(noRelatedSection) = skillsNoSection(g)
  /\ Range(issues) = skillsIssues(g, existing)
  /\ exitCode = (IF skillsIssues(g, existing) # {} THEN 1 ELSE 0)

\* C10 as stated: a skill whose document cannot be read is logged and skipped,
\* and the lists and the exit code are those of a run over the remaining
\* skills alone.
C10_UnreadableSkillAsIfAbsent ==
  relatedEnded =>
    \A u \in unreadableSkills(fs) :
       skippedAs(u, without(fs, u), getExistingSkills(without(fs, u)))

\* C10 as amended: the same, with the references of the remaining skills still
\* resolved against every subdirectory of the skills root, the one of the
\* unreadable skill included.
C10_UnreadableSkillSkipped ==
  relatedEnded =>
    \A u \in unreadableSkills(fs) :
       skippedAs(u, without(fs, u), getExistingSkills(fs))

\* a run skipped an unreadable skill and reported a broken link of another one
C10_Witness ==
  /\ relatedEnded
  /\ \E u \in unreadableSkills(fs) :
        /\ LineCannotRead(u) \in Range(stdout)
        /\ \E i \in 1..Len(issues) : issues[i].skill # u

\* ------------------------------------------------------------------------
\* checker 1: files that cannot be read, and files that hold nothing
\* ------------------------------------------------------------------------

\* checker 1 has ended, by its own exit or by an uncaught exception
metaEnded == pc \in {"done", "crashed"}

\* the discovered files whose read throws
metaUnreadable == {n \in discovered(fs) : fs[n].doc # "ok"}

\* the per-file results that belong to the file n
resultsOf(n) == {i \in 1..Len(results) : results[i].file = n}

\* the summary line is on standard output
summaryPrinted == \E i \in 1..Len(stdout) : stdout[i].tag = LineTotal(0, 0, 0).tag

\* C11: a read failure on a discovered file does not abort the batch: when the
\* run has ended and some discovered file could not be read, every readable
\* discovered file has been validated, the summary line has been printed, and
\* the exit code comes from the error count.
C11_ReadFailureDoesNotAbort ==
  (metaEnded /\ metaUnreadable # {}) =>
     /\ pc = "done"
     /\ \A n \in discovered(fs) \ metaUnreadable : resultsOf(n) # {}
     /\ summaryPrinted
     /\ exitCode = (IF errorCount > 0 THEN 1 ELSE 0)

\* the skill folders whose document holds zero bytes or does not exist
emptyOrMissing ==
  {n \in DOMAIN fs : fs[n].isDir /\ (fs[n].doc # "ok" \/ fs[n].text = << >>)}

\* C20: when the run has ended, every skill folder whose document holds zero
\* bytes or is missing has a result whose only error is the missing-frontmatter
\* error, and the run has reached the summary without crashing.
C20_EmptyOrMissingDocumentReported ==
  (metaEnded /\ emptyOrMissing # {}) =>
     /\ pc = "done"
     /\ summaryPrinted
     /\ \A n \in emptyOrMissing :
          \E i \in resultsOf(n) : results[i].errors = <<ErrMissingFrontmatter>>

\* the zero-byte half of C20 alone, which the code satisfies: a zero-byte
\* document that was validated has the missing-frontmatter error as its only
\* error, and no warning
zeroByteReported ==
  \A i \in 1..Len(results) :
     fs[results[i].file].text = << >> =>
        results[i].errors = <<ErrMissingFrontmatter>> /\ results[i].warnings = << >>

\* ------------------------------------------------------------------------
\* validateSkill: the name and description rules
\* ------------------------------------------------------------------------

\* a document with a frontmatter block has been validated
validatedRecord == pc = "validated" /\ ~frontmatter.isNull

\* the record holds the key with a non-empty value
hasValue(key) == key \in DOMAIN frontmatter.rec /\ Len(frontmatter.rec[key]) > 0

\* the name pattern in words: one lower-case letter or digit, or a string that
\* starts and ends with a lower-case letter or digit and has only lower-case
\* letters, digits and hyphens in between
wellFormedName(s) ==
  IF Len(s) = 1 THEN s[1] \in LowerLetters \cup Digits
  ELSE /\ Len(s) > 1
       /\ s[1] \in LowerLetters \cup Digits
       /\ s[Len(s)] \in LowerLetters \cup Digits
       /\ \A i \in 1..Len(s) : s[i] \in LowerLetters \cup Digits \cup {"-"}

\* the messages of a list that were built from the given templates
ofKinds(msgs, kinds) == SelectSeq(msgs, LAMBDA m : m.kind \in kinds)

NameErrorKinds == {ErrMissingName.kind, ErrNameLength(0).kind, ErrNamePattern(<< >>).kind}
DescriptionErrorKinds ==
  {ErrMissingDescription.kind, ErrDescriptionEmpty.kind, ErrDescriptionLength(0).kind}

C15_NameLengthBoundary ==
  (validatedRecord /\ hasValue(KeyName) /\ wellFormedName(frontmatter.rec[KeyName])) =>
    LET name == frontmatter.rec[KeyName]
    IN  /\ Len(name) = NameMaxLen =>
             ofKinds(result.errors, NameErrorKinds) = << >>
        /\ Len(name) = NameMaxLen + 1 =>
             ofKinds(result.errors, NameErrorKinds) = <<ErrNameLength(NameMaxLen + 1)>>

\* a 65-character name with hyphens inside has been validated
C15_Witness ==
  /\ validatedRecord
  /\ hasValue(KeyName)
  /\ frontmatter.rec[KeyName] = <<"a">> \o Rep("-", NameMaxLen - 1) \o <<"0">>
  /\ ErrNameLength(NameMaxLen + 1) \in Range(result.errors)

\* C16: a description of more than 1024 characters gives exactly one
\* description error, the length error reporting the actual length; a
\* non-empty description of at most 1024 characters gives no description error.
C16_DescriptionLengthBoundary ==
  (validatedRecord /\ hasValue(KeyDescription)) =>
    LET desc == frontmatter.rec[KeyDescription]
    IN  /\ Len(desc) > DescriptionMaxLen =>
             ofKinds(result.errors, DescriptionErrorKinds)
               = <<ErrDescriptionLength(Len(desc))>>
        /\ Len(desc) <= DescriptionMaxLen =>
             ofKinds(result.errors, DescriptionErrorKinds) = << >>

\* a description of 1025 characters has been validated
C16_Witness ==
  /\ validatedRecord
  /\ hasValue(KeyDescription)
  /\ Len(frontmatter.rec[KeyDescription]) = DescriptionMaxLen + 1
  /\ ErrDescriptionLength(DescriptionMaxLen + 1) \in Range(result.errors)

\* the constraints on the name that the record violates, each with its error
violatedName ==
  IF ~hasValue(KeyName) THEN <<ErrMissingName>>
  ELSE LET name == frontmatter.rec[KeyName]
       IN  (IF Len(name) > NameMaxLen THEN <<ErrNameLength(Len(name))>> ELSE << >>)
           \o (IF ~wellFormedName(name) THEN <<ErrNamePattern(name)>> ELSE << >>)

\* the constraints on the description that the record violates
violatedDescription ==
  IF ~hasValue(KeyDescription) THEN <<ErrMissingDescription>>
  ELSE LET desc == frontmatter.rec[KeyDescription]
       IN  IF Len(desc) > DescriptionMaxLen
             THEN <<ErrDescriptionLength(Len(desc))>> ELSE << >>

\* C17: with a frontmatter block present, the errors of the result are the
\* errors of the name followed by the errors of the description, one per
\* violated constraint, each side decided without regard to the other; a
\* well-formed name with no description key gives exactly the one error
\* "Missing required field: description".
C17_ErrorsAccumulate ==
  validatedRecord =>
    /\ result.errors = violatedName \o violatedDescription
    /\ (/\ violatedName = << >>
        /\ KeyDescription \notin DOMAIN frontmatter.rec)
         => result.errors = <<ErrMissingDescription>>

\* a record that violates the name length, the name pattern and the description
\* length has one error for each
C17_Witness ==
  /\ validatedRecord
  /\ violatedName # << >>
  /\ violatedDescription # << >>
  /\ Len(result.errors) = 3

\* the result of the same document in a folder that is named as the record says
inOwnFolder == validateSkill(content, frontmatter.rec[KeyName])

\* C18: a name that differs from the name of the containing directory gives
\* exactly one warning, which names both values, and the errors are those the
\* document has in a directory of its own name; a name equal to the directory
\* name gives no mismatch warning.
C18_FolderMismatchWarnsOnce ==
  (validatedRecord /\ hasValue(KeyName)) =>
    LET name == frontmatter.rec[KeyName]
        mismatch == ofKinds(result.warnings, {WarnFolder(<< >>, << >>).kind})
    IN  /\ name # folderName =>
             /\ mismatch = <<WarnFolder(name, folderName)>>
             /\ result.errors = inOwnFolder.errors
        /\ name = folderName => mismatch = << >>

\* a well-formed name in a folder of another name: one warning, no error
C18_Witness ==
  /\ validatedRecord
  /\ hasValue(KeyName)
  /\ frontmatter.rec[KeyName] = <<"o", "t", "h", "e", "r">>
  /\ folderName = <<"m", "y", "-", "s", "k", "i", "l", "l">>
  /\ WarnFolder(<<"o", "t", "h", "e", "r">>, <<"m", "y", "-", "s", "k", "i", "l", "l">>) \in Range(result.warnings)
  /\ ofKinds(result.errors, NameErrorKinds) = << >>

----------------------------------------------------------------------------
(* extractFrontmatter applied to the rendering of a key/value record *)

MaxKeys == 2

\* keys and values of the records that are rendered
RecordKeys == { <<"k">>, <<"-", "k">>, <<"a", ":", "b">>, <<" ", "k">>, <<"-", "-", "-">>, << >> }
RecordValues ==
  { <<"v">>, <<"a", ":", " ", "b">>, <<" ", "v", " ">>, <<"x", "\n", "y">>, <<"x", "\n", "-", "-", "-">>, <<"\"", "q", "\"">>, << >> }

\* a record: its entries in insertion order, no key twice
RecordEntries == [key : RecordKeys, value : RecordValues]
Records ==
  UNION {{r \in [1..n -> RecordEntries] :
            \A i, j \in 1..n : r[i].key = r[j].key => i = j} : n \in 0..MaxKeys}

RECURSIVE renderLines(_)
\* one "key: value" line for each entry
renderLines(r) ==
  IF r = << >> THEN << >>
  ELSE Head(r).key \o <<":", " ">> \o Head(r).value \o <<"\n">> \o renderLines(Tail(r))

\* the "key: value" lines between two --- lines
render(r) == <<"-", "-", "-", "\n">> \o renderLines(r) \o <<"-", "-", "-", "\n">>

\* the record as a mapping from its keys to their values
asRecord(r) ==
  [k \in {r[i].key : i \in 1..Len(r)} |->
     r[CHOOSE i \in 1..Len(r) : r[i].key = k].value]

InitRoundTrip ==
  /\ pc = "record"
  /\ record \in Records
  /\ content = << >>
  /\ folderName = << >>
  /\ frontmatter = Null
  /\ result = EmptyResult
  /\ prev = EmptyResult
  /\ edited = FALSE
  /\ fs = << >>
  /\ files = << >>
  /\ queue = << >>
  /\ results = << >>
  /\ errorCount = 0
  /\ warningCount = 0
  /\ existingSkills = {}
  /\ issues = << >>
  /\ noRelatedSection = << >>
  /\ missing = << >>
  /\ verbose = FALSE
  /\ checker = 0
  /\ stdout = << >>
  /\ exitCode = -1

UnchangedRoundTrip ==
  UNCHANGED <<folderName, result, prev, edited, fs, files, queue, results,
              errorCount, warningCount, existingSkills, issues, noRelatedSection,
              missing, verbose, record, checker, stdout, exitCode>>

\* the record is written out as a frontmatter block
Render ==
  /\ pc = "record"
  /\ content' = render(record)
  /\ pc' = "rendered"
  /\ UNCHANGED frontmatter
  /\ UnchangedRoundTrip

\* extractFrontmatter(content) on the rendered block
ExtractRendered ==
  /\ pc = "rendered"
  /\ frontmatter' = extractFrontmatter(content)
  /\ pc' = "extracted"
  /\ UNCHANGED content
  /\ UnchangedRoundTrip

NextRoundTrip == Render \/ ExtractRendered

SpecRoundTrip == InitRoundTrip /\ [][NextRoundTrip]_vars

\* the lines of the rendered record
recordLines == split(renderLines(record))

\* no line of the rendered record is exactly ---
noDashOnlyLine == \A i \in 1..Len(recordLines) : recordLines[i] # <<"-", "-", "-">>

\* the value begins and ends with the same quote character
quoteWrapped(v) ==
  \/ startsWith(v, "\"") /\ endsWith(v, "\"")
  \/ startsWith(v, "'") /\ endsWith(v, "'")

noQuoteAmbiguity == \A i \in 1..Len(record) : ~quoteWrapped(record[i].value)

\* the extraction returned a record equal to the original
roundTrips == ~frontmatter.isNull /\ frontmatter.rec = asRecord(record)

\* C19 as stated: every record with no --- only line and no quote-wrapped
\* value, rendered and extracted, comes back equal to the original.
C19_RoundTrip ==
  (pc = "extracted" /\ noDashOnlyLine /\ noQuoteAmbiguity) => roundTrips

\* a key that survives the split at the first colon and the trim
plainKey(k) ==
  /\ k # << >>
  /\ ":" \notin Range(k)
  /\ "\n" \notin Range(k)
  /\ trim(k) = k
  /\ ~(Len(k) >= 3 /\ SubSeq(k, 1, 3) = <<"-", "-", "-">>)

\* a value that survives the trim and the quote stripping
plainValue(v) ==
  /\ "\n" \notin Range(v)
  /\ trim(v) = v
  /\ ~quoteWrapped(v)

plainRecord ==
  /\ record # << >>
  /\ \A i \in 1..Len(record) : plainKey(record[i].key) /\ plainValue(record[i].value)

\* C19, amended: a record with at least one entry, whose keys are non-empty,
\* free of colons and line breaks, without surrounding white space and not
\* beginning with ---, and whose values are single lines without
\* surrounding white space and not quote-wrapped, comes back equal.
C19_RoundTripPlain ==
  (pc = "extracted" /\ plainRecord) => roundTrips

\* a plain record of two entries has made the round trip
C19_Witness ==
  /\ pc = "extracted"
  /\ plainRecord
  /\ Len(record) = 2
  /\ \E i \in 1..2 : record[i].value = <<"a", ":", " ", "b">>
  /\ roundTrips

----------------------------------------------------------------------------
(* Checker 3: the section patterns *)

\* the parts of a regular expression; every pattern of checker 3 has the flag i,
\* so literals are written in lower case and matched against the lower-cased text
Lit(s) == [t |-> "lit", s |-> s, alts |-> << >>]
\* \s*
Ws == [t |-> "ws", s |-> << >>, alts |-> << >>]
\* .*
AnyRun == [t |-> "any", s |-> << >>, alts |-> << >>]
\* $ under the flag m
Eol == [t |-> "eol", s |-> << >>, alts |-> << >>]
\* (?:a|b)
Alt(alts) == [t |-> "alt", s |-> << >>, alts |-> alts]
\* (?:a|b)?
Opt(alts) == [t |-> "opt", s |-> << >>, alts |-> alts]

\* the characters . matches
NotLineBreak(c) == c \notin {"\n", "\r"}

\* the number of characters from position p on, in a row, that \s matches
wsRun(s, p) ==
  LET stop == {q \in p..Len(s) : s[q] \notin WhiteSpace}
  IN  IF stop = {} THEN Len(s) - p + 1 ELSE Min(stop) - p

\* the number of characters from position p on, in a row, that . matches
anyRun(s, p) ==
  LET stop == {q \in p..Len(s) : ~NotLineBreak(s[q])}
  IN  IF stop = {} THEN Len(s) - p + 1 ELSE Min(stop) - p

RECURSIVE matchEnd(_, _, _)
\* the backtracking match of the expression re at position p of s: the position
\* after the match that is found first (greedy quantifiers try the longest run
\* first, alternatives are tried from left to right), or 0 when there is none
matchEnd(re, s, p) ==
  IF Len(re) = 0 THEN p
  ELSE LET h == Head(re)
           r == Tail(re)
       IN  CASE h.t = "lit" ->
                  IF at(s, p, h.s) THEN matchEnd(r, s, p + Len(h.s)) ELSE 0
             [] h.t \in {"ws", "any"} ->
                  LET run == IF h.t = "ws" THEN wsRun(s, p) ELSE anyRun(s, p)
                      end == [n \in 0..run |-> matchEnd(r, s, p + n)]
                      ok == {n \in 0..run : end[n] # 0}
                  IN  IF ok = {} THEN 0 ELSE end[Max(ok)]
             [] h.t = "eol" ->
                  IF p = Len(s) + 1 \/ (p <= Len(s) /\ ~NotLineBreak(s[p]))
                    THEN matchEnd(r, s, p) ELSE 0
             [] h.t \in {"alt", "opt"} ->
                  LET end == [i \in 1..Len(h.alts) |-> matchEnd(h.alts[i] \o r, s, p)]
                      ok == {i \in 1..Len(h.alts) : end[i] # 0}
                  IN  IF ok # {} THEN end[Min(ok)]
                      ELSE IF h.t = "opt" THEN matchEnd(r, s, p) ELSE 0

\* content.match(pattern): the start of the leftmost match of the expression in
\* the content and the position after it, or <<0, 0>> when there is no match
match(re, c) ==
  LET lc == toLowerCase(c)
      end == [p \in 1..(Len(c) + 1) |-> IF at(lc, p, re[1].s) THEN matchEnd(re, lc, p) ELSE 0]
      starts == {p \in 1..(Len(c) + 1) : end[p] # 0}
  IN  IF starts = {} THEN <<0, 0>> ELSE <<Min(starts), end[Min(starts)]>>

\* pattern.test(content)
test(re, c) == match(re, c)[1] # 0

\* content.match(pattern)[0]: the text of the leftmost match
matchText(re, c) == SubSeq(c, match(re, c)[1], match(re, c)[2] - 1)

\* one literal, and a choice of literals
Word(s) == <<Lit(s)>>
OneOf(words) == Alt([i \in 1..Len(words) |-> Word(words[i])])
Maybe(words) == Opt([i \in 1..Len(words) |-> Word(words[i])])

\* (?:step[- ]?by[- ]?step:?\s*)?
StepByStep ==
  Opt(<< <<Lit(<<"s", "t", "e", "p">>), Maybe(<< <<"-">>, <<" ">> >>), Lit(<<"b", "y">>),
           Maybe(<< <<"-">>, <<" ">> >>), Lit(<<"s", "t", "e", "p">>), Maybe(<< <<":">> >>), Ws>> >>)

\* (?:the\s*)?  and  (?:admin\s*)?  and  (?:an\s*)?
MaybeThe == Opt(<< <<Lit(<<"t", "h", "e">>), Ws>> >>)
MaybeAdmin == Opt(<< <<Lit(<<"a", "d", "m", "i", "n">>), Ws>> >>)
MaybeAn == Opt(<< <<Lit(<<"a", "n">>), Ws>> >>)

Hashes == Lit(<<"#", "#">>)

\* const UI_PATTERNS
UI_PATTERNS ==
  << <<Hashes, Ws, StepByStep, Lit(<<"u", "i">>), Ws, OneOf(<< <<"a", "p", "p", "r", "o", "a", "c", "h">>, <<"m", "o", "d", "e">> >>)>>,
     <<Hashes, Ws, Lit(<<"u", "i">>), Ws, Lit(<<"a", "p", "p", "r", "o", "a", "c", "h">>)>>,
     <<Hashes, Ws, Lit(<<"a", "d", "m", "i", "n">>), Ws, Lit(<<"p", "a", "n", "e", "l">>)>>,
     <<Hashes, Ws, Lit(<<"u", "s", "i", "n", "g">>), Ws, MaybeThe, MaybeAdmin, Lit(<<"u", "i">>)>>,
     <<Hashes, Ws, OneOf(<< <<"v", "i", "a">>, <<"t", "h", "r", "o", "u", "g", "h">>, <<"i", "n">> >>), Ws, MaybeThe, MaybeAdmin,
       OneOf(<< <<"p", "a", "n", "e", "l">>, <<"u", "i">> >>)>>,
     <<Hashes, Ws, Lit(<<"w", "h", "e", "n">>), Ws, Lit(<<"t", "o">>), Ws, Lit(<<"u", "s", "e">>), Ws, Lit(<<"u", "i">>), Ws,
       Lit(<<"m", "o", "d", "e">>)>>,
     <<Hashes, Ws, Lit(<<"w", "h", "e", "n">>), Ws, Lit(<<"t", "o">>), Ws, Lit(<<"u", "s", "e">>), Eol>> >>

\* const CODE_PATTERNS
CODE_PATTERNS ==
  << <<Hashes, Ws, StepByStep, Lit(<<"c", "o", "d", "e">>), Ws, OneOf(<< <<"a", "p", "p", "r", "o", "a", "c", "h">>, <<"m", "o", "d", "e">> >>)>>,
     <<Hashes, Ws, Lit(<<"c", "o", "d", "e">>), Ws, Lit(<<"a", "p", "p", "r", "o", "a", "c", "h">>)>>,
     <<Hashes, Ws, Lit(<<"p", "r", "o", "g", "r", "a", "m", "m", "a", "t", "i", "c">>)>>,
     <<Hashes, Ws, Lit(<<"u", "s", "i", "n", "g">>), Ws, MaybeThe, OneOf(<< <<"s", "d", "k">>, <<"a", "p", "i">>, <<"c", "o", "d", "e">> >>)>>,
     <<Hashes, Ws, OneOf(<< <<"v", "i", "a">>, <<"t", "h", "r", "o", "u", "g", "h">>, <<"w", "i", "t", "h">> >>), Ws, MaybeThe,
       OneOf(<< <<"s", "d", "k">>, <<"a", "p", "i">>, <<"c", "o", "d", "e">> >>)>>,
     <<Hashes, Ws, OneOf(<< <<"t", "y", "p", "e", "s", "c", "r", "i", "p", "t">>, <<"j", "a", "v", "a", "s", "c", "r", "i", "p", "t">> >>)>>,
     <<Hashes, Ws, Lit(<<"w", "h", "e", "n">>), Ws, Lit(<<"t", "o">>), Ws, Lit(<<"u", "s", "e">>), Ws, Lit(<<"c", "o", "d", "e">>), Ws,
       Lit(<<"m", "o", "d", "e">>)>>,
     <<Hashes, Ws, Lit(<<"t", "e", "s", "t">>), Ws, Lit(<<"r", "u", "n", "n", "e", "r">>), Ws, Lit(<<"s", "e", "t", "u", "p">>)>>,
     <<Hashes, Ws, AnyRun, Lit(<<"s", "e", "t", "u", "p">>)>> >>

\* const WHEN_TO_USE_PATTERNS
WHEN_TO_USE_PATTERNS ==
  << <<Hashes, Ws, Lit(<<"w", "h", "e", "n">>), Ws, Lit(<<"t", "o">>), Ws, Lit(<<"u", "s", "e">>), Ws,
       OneOf(<< <<"u", "i">>, <<"c", "o", "d", "e">> >>)>>,
     <<Hashes, Ws, OneOf(<< <<"u", "i">>, <<"c", "o", "d", "e">> >>), Ws, Lit(<<"v", "s">>), Ws,
       OneOf(<< <<"u", "i">>, <<"c", "o", "d", "e">> >>)>>,
     <<Hashes, Ws, Lit(<<"c", "h", "o", "o", "s", "i", "n", "g">>), Ws, MaybeAn, Lit(<<"a", "p", "p", "r", "o", "a", "c", "h">>)>> >>

\* the value of a variable that was never assigned
Undefined == <<"undefined">>

\* the patterns of a list that match the content, by their index
matching(patterns, c) == {i \in 1..Len(patterns) : test(patterns[i], c)}

\* the text the last matching pattern of the list gives, as loops without their
\* break would leave it
firstMatchNoBreak(patterns, hits, c) ==
  IF hits = {} THEN Undefined ELSE matchText(patterns[Max(hits)], c)

\* the text the first matching pattern of the list gives, as the loops of
\* checkSections leave it in uiMatch and codeMatch
firstMatch(patterns, hits, c) ==
  IF hits = {} THEN Undefined ELSE matchText(patterns[Min(hits)], c)

\* function checkSections(content)
checkSections(c) ==
  LET ui == matching(UI_PATTERNS, c)
      code == matching(CODE_PATTERNS, c)
  IN  [hasUI |-> ui # {},
       hasCode |-> code # {},
       hasWhenToUse |-> matching(WHEN_TO_USE_PATTERNS, c) # {},
       uiMatch |-> firstMatch(UI_PATTERNS, ui, c),
       codeMatch |-> firstMatch(CODE_PATTERNS, code, c)]

\* documents given to checkSections
SectionDocuments ==
  { <<"#", " ", "T", "\n">>,
    <<"#", "#", " ", "U", "I", " ", "A", "p", "p", "r", "o", "a", "c", "h", "\n", "#", "#", " ", "C", "o", "d", "e", " ", "A", "p", "p", "r", "o", "a", "c", "h", "\n">>,
    <<"#", "#", " ", "U", "I", " ", "A", "p", "p", "r", "o", "a", "c", "h", "\n", "#", "#", " ", "C", "o", "d", "e", " ", "A", "p", "p", "r", "o", "a", "c", "h", "\n", "#", "#", " ", "C", "h", "o", "o", "s", "i", "n", "g", " ", "a", "n", " ", "A", "p", "p", "r", "o", "a", "c", "h", "\n">>,
    <<"#", "#", " ", "C", "h", "o", "o", "s", "i", "n", "g", " ", "a", "p", "p", "r", "o", "a", "c", "h", "\n">>,
    <<"#", "#", " ", "A", "d", "m", "i", "n", " ", "P", "a", "n", "e", "l", "\n">>,
    <<"#", "#", "#", " ", "S", "e", "t", "u", "p", "\n">>,
    <<"#", "#", " ", "W", "h", "e", "n", " ", "t", "o", " ", "U", "s", "e", "\n", "#", "#", " ", "T", "y", "p", "e", "S", "c", "r", "i", "p", "t", "\n", "#", "#", " ", "U", "s", "i", "n", "g", " ", "t", "h", "e", " ", "A", "P", "I", "\n">>,
    <<"#", "#", " ", "W", "h", "e", "n", " ", "t", "o", " ", "U", "s", "e", " ", "U", "I", "\n">>,
    <<"#", "#", "\n", "S", "t", "e", "p", "-", "b", "y", "-", "s", "t", "e", "p", ":", " ", "U", "I", " ", " ", "m", "o", "d", "e", "\n", "#", "#", " ", "T", "e", "s", "t", " ", "R", "u", "n", "n", "e", "r", " ", "S", "e", "t", "u", "p", " ", "s", "e", "t", "u", "p", "\n", "#", "#", " ", "U", "I", " ", "v", "s", " ", "C", "o", "d", "e">>,
    <<"#", "#", " ", "V", "i", "a", " ", "t", "h", "e", " ", "A", "d", "m", "i", "n", " ", "U", "I", "\n", "#", "#", " ", "w", "i", "t", "h", " ", "S", "D", "K", "\n">> }

----------------------------------------------------------------------------
(* Checker 3: main *)

MaxSectionFolders == 2

\* const PRD_SKILLS
PRD_SKILLS ==
  {
    <<"b", "k", "n", "d", "-", "c", "r", "e", "a", "t", "e", "-", "e", "n", "t", "i", "t", "y">>, <<"b", "k", "n", "d", "-", "a", "d", "d", "-", "f", "i", "e", "l", "d">>, <<"b", "k", "n", "d", "-", "d", "e", "f", "i", "n", "e", "-", "r", "e", "l", "a", "t", "i", "o", "n", "s", "h", "i", "p">>,
    <<"b", "k", "n", "d", "-", "m", "o", "d", "i", "f", "y", "-", "s", "c", "h", "e", "m", "a">>, <<"b", "k", "n", "d", "-", "d", "e", "l", "e", "t", "e", "-", "e", "n", "t", "i", "t", "y">>, <<"b", "k", "n", "d", "-", "s", "e", "e", "d", "-", "d", "a", "t", "a">>,
    <<"b", "k", "n", "d", "-", "c", "r", "u", "d", "-", "c", "r", "e", "a", "t", "e">>, <<"b", "k", "n", "d", "-", "c", "r", "u", "d", "-", "r", "e", "a", "d">>, <<"b", "k", "n", "d", "-", "c", "r", "u", "d", "-", "u", "p", "d", "a", "t", "e">>,
    <<"b", "k", "n", "d", "-", "c", "r", "u", "d", "-", "d", "e", "l", "e", "t", "e">>, <<"b", "k", "n", "d", "-", "q", "u", "e", "r", "y", "-", "f", "i", "l", "t", "e", "r">>, <<"b", "k", "n", "d", "-", "p", "a", "g", "i", "n", "a", "t", "i", "o", "n">>,
    <<"b", "k", "n", "d", "-", "b", "u", "l", "k", "-", "o", "p", "e", "r", "a", "t", "i", "o", "n", "s">>, <<"b", "k", "n", "d", "-", "c", "r", "e", "a", "t", "e", "-", "u", "s", "e", "r">>, <<"b", "k", "n", "d", "-", "s", "e", "t", "u", "p", "-", "a", "u", "t", "h">>,
    <<"b", "k", "n", "d", "-", "l", "o", "g", "i", "n", "-", "f", "l", "o", "w">>, <<"b", "k", "n", "d", "-", "r", "e", "g", "i", "s", "t", "r", "a", "t", "i", "o", "n">>, <<"b", "k", "n", "d", "-", "p", "a", "s", "s", "w", "o", "r", "d", "-", "r", "e", "s", "e", "t">>,
    <<"b", "k", "n", "d", "-", "s", "e", "s", "s", "i", "o", "n", "-", "h", "a", "n", "d", "l", "i", "n", "g">>, <<"b", "k", "n", "d", "-", "o", "a", "u", "t", "h", "-", "s", "e", "t", "u", "p">>, <<"b", "k", "n", "d", "-", "c", "r", "e", "a", "t", "e", "-", "r", "o", "l", "e">>,
    <<"b", "k", "n", "d", "-", "a", "s", "s", "i", "g", "n", "-", "p", "e", "r", "m", "i", "s", "s", "i", "o", "n", "s">>, <<"b", "k", "n", "d", "-", "r", "o", "w", "-", "l", "e", "v", "e", "l", "-", "s", "e", "c", "u", "r", "i", "t", "y">>, <<"b", "k", "n", "d", "-", "p", "r", "o", "t", "e", "c", "t", "-", "e", "n", "d", "p", "o", "i", "n", "t">>,
    <<"b", "k", "n", "d", "-", "p", "u", "b", "l", "i", "c", "-", "v", "s", "-", "a", "u", "t", "h">>, <<"b", "k", "n", "d", "-", "a", "p", "i", "-", "d", "i", "s", "c", "o", "v", "e", "r", "y">>, <<"b", "k", "n", "d", "-", "c", "l", "i", "e", "n", "t", "-", "s", "e", "t", "u", "p">>,
    <<"b", "k", "n", "d", "-", "c", "u", "s", "t", "o", "m", "-", "e", "n", "d", "p", "o", "i", "n", "t">>, <<"b", "k", "n", "d", "-", "w", "e", "b", "h", "o", "o", "k", "s">>, <<"b", "k", "n", "d", "-", "r", "e", "a", "l", "t", "i", "m", "e">>,
    <<"b", "k", "n", "d", "-", "f", "i", "l", "e", "-", "u", "p", "l", "o", "a", "d">>, <<"b", "k", "n", "d", "-", "s", "t", "o", "r", "a", "g", "e", "-", "c", "o", "n", "f", "i", "g">>, <<"b", "k", "n", "d", "-", "s", "e", "r", "v", "e", "-", "f", "i", "l", "e", "s">>,
    <<"b", "k", "n", "d", "-", "l", "o", "c", "a", "l", "-", "s", "e", "t", "u", "p">>, <<"b", "k", "n", "d", "-", "e", "n", "v", "-", "c", "o", "n", "f", "i", "g">>, <<"b", "k", "n", "d", "-", "d", "e", "b", "u", "g", "g", "i", "n", "g">>,
    <<"b", "k", "n", "d", "-", "t", "e", "s", "t", "i", "n", "g">>, <<"b", "k", "n", "d", "-", "d", "e", "p", "l", "o", "y", "-", "h", "o", "s", "t", "i", "n", "g">>, <<"b", "k", "n", "d", "-", "d", "a", "t", "a", "b", "a", "s", "e", "-", "p", "r", "o", "v", "i", "s", "i", "o", "n">>,
    <<"b", "k", "n", "d", "-", "p", "r", "o", "d", "u", "c", "t", "i", "o", "n", "-", "c", "o", "n", "f", "i", "g">> }

\* the type CheckResult
CheckResult(skill, sections) ==
  [skill |-> skill,
   hasUISection |-> sections.hasUI,
   hasCodeSection |-> sections.hasCode,
   hasWhenToUse |-> sections.hasWhenToUse,
   uiMatch |-> sections.uiMatch,
   codeMatch |-> sections.codeMatch]

\* a result before any pattern was tried
EmptySections ==
  CheckResult(<< >>, [hasUI |-> FALSE, hasCode |-> FALSE, hasWhenToUse |-> FALSE,
                      uiMatch |-> Undefined, codeMatch |-> Undefined])

\* main, line 137, with the guidance section required as well
isMissingOrNoGuidance(r) == ~r.hasUISection \/ ~r.hasCodeSection \/ ~r.hasWhenToUse

\* main, line 137: if (!hasUI || !hasCode)
isMissing(r) == ~r.hasUISection \/ ~r.hasCodeSection

\* the lines checker 3 prints
LineChecking(n) ==
  Line("Checking n PRD skills for UI + code approach sections...", << >>, NoMsg, n, 0, 0)
LineAllHaveBoth ==
  Line("All PRD skills have both UI and code approach sections!", << >>, NoMsg, 0, 0, 0)
LineSummary == Line("Summary:", << >>, NoMsg, 0, 0, 0)
LineChecked(n) == Line("  - n PRD skills checked", << >>, NoMsg, n, 0, 0)
LineWithWhenToUse(n) ==
  Line("  - n have \"When to use UI vs Code\" section", << >>, NoMsg, n, 0, 0)
LineFoundMissing(n) ==
  Line("Found n skills missing UI and/or code sections:", << >>, NoMsg, n, 0, 0)
\* issues.join(" + ")
joinedIssues(r) ==
  IF ~r.hasUISection /\ ~r.hasCodeSection THEN <<"U", "I", " ", "+", " ", "C", "o", "d", "e">>
  ELSE IF ~r.hasUISection THEN <<"U", "I">>
  ELSE IF ~r.hasCodeSection THEN <<"C", "o", "d", "e">>
  ELSE << >>
LineMissing(r) ==
  Line("  skill: missing s section", r.skill, Msg("", 0, joinedIssues(r), << >>), 0, 0, 0)
LineDetailed == Line("Detailed results:", << >>, NoMsg, 0, 0, 0)
LineSkill(r) == Line("skill:", r.skill, NoMsg, 0, 0, 0)
LineUI(r) ==
  IF r.hasUISection THEN Line("  UI: ok s", << >>, Msg("", 0, r.uiMatch, << >>), 0, 0, 0)
  ELSE Line("  UI: no", << >>, NoMsg, 0, 0, 0)
LineCode(r) ==
  IF r.hasCodeSection THEN Line("  Code: ok s", << >>, Msg("", 0, r.codeMatch, << >>), 0, 0, 0)
  ELSE Line("  Code: no", << >>, NoMsg, 0, 0, 0)
LineWhenToUse(r) ==
  Line(IF r.hasWhenToUse THEN "  When to use: ok" ELSE "  When to use: no",
       << >>, NoMsg, 0, 0, 0)

\* the skill folders of the root, and what they hold
SectionFolders == { <<"b", "k", "n", "d", "-", "t", "e", "s", "t", "i", "n", "g">>, <<"b", "k", "n", "d", "-", "a", "d", "d", "-", "f", "i", "e", "l", "d">>, <<"b", "k", "n", "d", "-", "l", "e", "g", "a", "c", "y">> }
SectionEntries ==
  {Entry(TRUE, "ok", d) : d \in SectionDocuments}
  \cup {Entry(TRUE, "unreadable", << >>), Entry(TRUE, "absent", << >>)}

\* checkSections for each of the documents, computed once
sectionsOf == [d \in SectionDocuments |-> checkSections(d)]

\* the files the glob plugins/bknd-skills/skills/bknd-*/SKILL.md matches
discoveredSections(f) ==
  {n \in DOMAIN f : f[n].isDir /\ f[n].doc # "absent" /\ at(n, 1, Prefix)}

\* a list of results left in the order of the loop
inScanOrder(rs) == rs

\* a list of results sorted by a.skill.localeCompare(b.skill)
bySkill(rs) == sorted(Range(rs), [r \in Range(rs) |-> r.skill])

InitSections ==
  /\ pc = "scan"
  /\ \E D \in SUBSET SectionFolders :
        /\ Cardinality(D) <= MaxSectionFolders
        /\ fs \in [D -> SectionEntries]
  /\ verbose \in BOOLEAN
  /\ content = << >>
  /\ folderName = << >>
  /\ frontmatter = Null
  /\ result = EmptyResult
  /\ prev = EmptyResult
  /\ edited = FALSE
  /\ files = << >>
  /\ queue = << >>
  /\ results = << >>
  /\ errorCount = 0
  /\ warningCount = 0
  /\ existingSkills = {}
  /\ issues = << >>
  /\ noRelatedSection = << >>
  /\ missing = << >>
  /\ record = << >>
  /\ checker = 3
  /\ stdout = << >>
  /\ exitCode = -1

UnchangedOthers3 ==
  UNCHANGED <<frontmatter, result, prev, edited, errorCount, warningCount,
              existingSkills, issues, noRelatedSection, record, verbose, checker, fs>>

\* main, line 117: glob.scan(".") yields the matching files in some order
SectionsScan ==
  /\ pc = "scan"
  /\ files' \in Orders(discoveredSections(fs))
  /\ queue' = files'
  /\ pc' = "loop"
  /\ UNCHANGED <<content, folderName, results, missing, stdout, exitCode>>
  /\ UnchangedOthers3

\* main, lines 118-121: a skill outside PRD_SKILLS is passed over
SectionsSkip ==
  /\ pc = "loop"
  /\ queue # << >>
  /\ Head(queue) \notin PRD_SKILLS
  /\ folderName' = Head(queue)
  /\ queue' = Tail(queue)
  /\ UNCHANGED <<pc, content, files, results, missing, stdout, exitCode>>
  /\ UnchangedOthers3

\* main, lines 123-139: one document is read and checked
SectionsCheck ==
  /\ pc = "loop"
  /\ queue # << >>
  /\ Head(queue) \in PRD_SKILLS
  /\ fs[Head(queue)].doc = "ok"
  /\ folderName' = Head(queue)
  /\ content' = fs[Head(queue)].text
  /\ LET r == CheckResult(folderName', sectionsOf[content'])
     IN  /\ results' = Append(results, r)
         /\ missing' = IF isMissing(r) THEN Append(missing, r) ELSE missing
  /\ queue' = Tail(queue)
  /\ UNCHANGED <<pc, files, stdout, exitCode>>
  /\ UnchangedOthers3

\* main, line 123: readFile throws; nothing catches it up to main() on line 177,
\* and the runtime ends the process with code 1
SectionsReadFails ==
  /\ pc = "loop"
  /\ queue # << >>
  /\ Head(queue) \in PRD_SKILLS
  /\ fs[Head(queue)].doc # "ok"
  /\ folderName' = Head(queue)
  /\ pc' = "crashed"
  /\ exitCode' = 1
  /\ UNCHANGED <<content, files, queue, results, missing, stdout>>
  /\ UnchangedOthers3

RECURSIVE missingLines(_)
\* main, lines 154-159: one line for each skill of the sorted missing list
missingLines(rs) ==
  IF rs = << >> THEN << >> ELSE <<LineMissing(Head(rs))>> \o missingLines(Tail(rs))

RECURSIVE detailedLines(_)
\* main, lines 166-171: four lines for each result
detailedLines(rs) ==
  IF rs = << >> THEN << >>
  ELSE <<LineSkill(Head(rs)), LineUI(Head(rs)), LineCode(Head(rs)), LineWhenToUse(Head(rs))>>
       \o detailedLines(Tail(rs))

\* main, lines 142-172: the lines printed for the results rs and the missing
\* list ms of the loop
sectionsReport(rs, ms, v) ==
  <<LineChecking(Len(rs))>>
  \o (IF Len(ms) = 0
        THEN <<LineAllHaveBoth, LineSummary, LineChecked(Len(rs)),
               LineWithWhenToUse(Cardinality({i \in 1..Len(rs) : rs[i].hasWhenToUse}))>>
        ELSE <<LineFoundMissing(Len(ms))>> \o missingLines(bySkill(ms)))
  \o (IF v THEN <<LineDetailed>> \o detailedLines(bySkill(rs)) ELSE << >>)

\* main, lines 142-174: the report and the exit code
SectionsReport ==
  /\ pc = "loop"
  /\ queue = << >>
  /\ missing' = bySkill(missing)
  /\ results' = IF verbose THEN bySkill(results) ELSE results
  /\ stdout' = sectionsReport(results, missing, verbose)
  /\ exitCode' = IF Len(missing) > 0 THEN 1 ELSE 0
  /\ pc' = "done"
  /\ UNCHANGED <<content, folderName, files, queue>>
  /\ UnchangedOthers3

NextSections ==
  SectionsScan \/ SectionsSkip \/ SectionsCheck \/ SectionsReadFails \/ SectionsReport

SpecSections == InitSections /\ [][NextSections]_vars

\* ------------------------------------------------------------------------
\* checker 3: the missing list and the exit code
\* ------------------------------------------------------------------------

\* checker 3 has ended, by its own exit or by an uncaught exception
sectionsEnded == pc \in {"done", "crashed"}

\* for each document, the patterns of each list that match it, computed once
uiHits == [d \in SectionDocuments |-> matching(UI_PATTERNS, d)]
codeHits == [d \in SectionDocuments |-> matching(CODE_PATTERNS, d)]
guidanceHits == [d \in SectionDocuments |-> matching(WHEN_TO_USE_PATTERNS, d)]

\* the skill has a document in which a pattern of the list matches
hasMatch(skill, hits) ==
  /\ skill \in DOMAIN fs
  /\ fs[skill].isDir
  /\ fs[skill].doc = "ok"
  /\ hits[fs[skill].text] # {}

\* C12: when checker 3 has ended, its exit code is 0 exactly when every
\* identifier of the allow-list has a document with a match of a UI pattern and
\* a match of a code pattern, and 1 otherwise.
C12_ExitZeroIffAllowListCovered ==
  sectionsEnded =>
    /\ exitCode \in {0, 1}
    /\ exitCode = 0 <=>
         \A skill \in PRD_SKILLS :
            hasMatch(skill, uiHits) /\ hasMatch(skill, codeHits)

\* the part of C12 the code keeps: the exit code is 0 exactly when every
\* allow-list skill the glob matched could be read and has both matches
discoveredCovered ==
  sectionsEnded =>
    (exitCode = 0 <=>
       \A skill \in discoveredSections(fs) \cap PRD_SKILLS :
          hasMatch(skill, uiHits) /\ hasMatch(skill, codeHits))

\* the results of the skills that are in the missing list
inMissing(r) == \E i \in 1..Len(missing) : missing[i] = r

\* C13: a checked document is in the missing list exactly when no UI pattern
\* matches it or no code pattern matches it, whatever the choice-guidance
\* patterns find; and the exit code printed after the loop is 1 exactly when
\* some checked document lacks a UI match or a code match.
C13_MissingIffNoUIOrNoCode ==
  /\ \A i \in 1..Len(results) :
        inMissing(results[i])
          <=> (~hasMatch(results[i].skill, uiHits)
                 \/ ~hasMatch(results[i].skill, codeHits))
  /\ pc = "done" =>
        (exitCode = 1 <=>
           \E i \in 1..Len(results) :
              ~hasMatch(results[i].skill, uiHits)
                \/ ~hasMatch(results[i].skill, codeHits))
  /\ pc = "done" => exitCode \in {0, 1}

\* two checked documents, both with a match of a choice-guidance pattern: one has
\* neither a UI nor a code match and is in the missing list, the other has both
\* and is not
C13_Witness ==
  /\ pc = "done"
  /\ exitCode = 1
  /\ \E i, j \in 1..Len(results) :
        /\ hasMatch(results[i].skill, guidanceHits) /\ inMissing(results[i])
        /\ ~hasMatch(results[i].skill, uiHits) /\ ~hasMatch(results[i].skill, codeHits)
        /\ hasMatch(results[j].skill, guidanceHits) /\ ~inMissing(results[j])

----------------------------------------------------------------------------
(* Checkers 1 and 3 over the same kind of run: a scan, a loop, a report *)

InitDiscovery == InitMeta \/ InitSections

NextDiscovery == (checker = 1 /\ NextMeta) \/ (checker = 3 /\ NextSections)

SpecDiscovery == InitDiscovery /\ [][NextDiscovery]_vars

RECURSIVE sumWarnings(_)
\* the sum of the warning counts of the per-file results
sumWarnings(rs) ==
  IF rs = << >> THEN 0 ELSE Len(Head(rs).warnings) + sumWarnings(Tail(rs))

\* what checker 1 prints and how it exits when file discovery yields the paths
\* in the given order
metaRun(order) ==
  LET fl == sorted(Range(order), [f \in Range(order) |-> pathTail(f)])
      rs == [i \in 1..Len(fl) |-> validateSkill(fs[fl[i]].text, fl[i])]
  IN  IF \E i \in 1..Len(fl) : fs[fl[i]].doc # "ok"
        THEN [stdout |-> <<LineValidating(Len(order))>>, exitCode |-> 1]
        ELSE [stdout |-> <<LineValidating(Len(order))>>
                         \o metaReport(rs, Len(order), sumErrors(rs), sumWarnings(rs)),
              exitCode |-> IF sumErrors(rs) > 0 THEN 1 ELSE 0]

\* what checker 3 prints and how it exits when file discovery yields the paths
\* in the given order
sectionsRun(order, v) ==
  LET scope == SelectSeq(order, LAMBDA n : n \in PRD_SKILLS)
      rs == [i \in 1..Len(scope) |-> CheckResult(scope[i], sectionsOf[fs[scope[i]].text])]
      ms == SelectSeq(rs, isMissing)
  IN  IF \E i \in 1..Len(scope) : fs[scope[i]].doc # "ok"
        THEN [stdout |-> << >>, exitCode |-> 1]
        ELSE [stdout |-> sectionsReport(rs, ms, v),
              exitCode |-> IF Len(ms) > 0 THEN 1 ELSE 0]

\* the run has ended, by its own exit or by an uncaught exception
discoveryEnded == pc \in {"done", "crashed"}

\* the names on the lines of standard output that carry the given tag, in the
\* order of the lines
namesTagged(tag) ==
  LET at2 == SelectSeq(stdout, LAMBDA l : l.tag = tag)
  IN  [i \in 1..Len(at2) |-> at2[i].file]

\* the names are in strictly ascending order under the given key
ascending(names, key) ==
  \A i, j \in 1..Len(names) : i < j => lexLess(key[names[i]], key[names[j]])

pathKey == [n \in MetaFolders |-> pathTail(n)]
skillKey == [n \in SectionFolders |-> n]

\* C21: when checker 1 or checker 3 has ended, its standard output and its exit
\* code are those of a run in which file discovery yields the same paths in any
\* other order; and the per-file entries of checker 1 and the per-skill entries
\* of checker 3 stand in ascending order of path and of skill identifier.
C21_OutputIndependentOfDiscoveryOrder ==
  /\ (checker = 1 /\ discoveryEnded) =>
        \A o \in Orders(discovered(fs)) :
           [stdout |-> stdout, exitCode |-> exitCode] = metaRun(o)
  /\ (checker = 3 /\ discoveryEnded) =>
        \A o \in Orders(discoveredSections(fs)) :
           [stdout |-> stdout, exitCode |-> exitCode] = sectionsRun(o, verbose)
  /\ checker = 1 => ascending(namesTagged(LineFile(<< >>).tag), pathKey)
  /\ checker = 3 =>
        /\ ascending(namesTagged(LineMissing(EmptySections).tag), skillKey)
        /\ ascending(namesTagged(LineSkill(EmptySections).tag), skillKey)

\* checker 3 has met two skills in descending order, both without the sections,
\* and has printed them in ascending order
C21_Witness ==
  /\ checker = 3
  /\ pc = "done"
  /\ files = << <<"b", "k", "n", "d", "-", "t", "e", "s", "t", "i", "n", "g">>, <<"b", "k", "n", "d", "-", "a", "d", "d", "-", "f", "i", "e", "l", "d">> >>
  /\ namesTagged(LineMissing(EmptySections).tag) = << <<"b", "k", "n", "d", "-", "a", "d", "d", "-", "f", "i", "e", "l", "d">>, <<"b", "k", "n", "d", "-", "t", "e", "s", "t", "i", "n", "g">> >>
  /\ verbose

\* ------------------------------------------------------------------------
\* checker 2: the order of enumeration, the banner, the identifier set
\* ------------------------------------------------------------------------

\* what checker 2 prints and how it exits when readdir returns the directories
\* in the given order
relatedRun(order) ==
  LET readable(n) == fs[n].doc = "ok"
      notices == SelectSeq(order, LAMBDA n : ~readable(n))
      noSection == SelectSeq(order, LAMBDA n : readable(n) /\ ~hasRelatedHeading(fs[n].text))
      broken == SelectSeq(order, LAMBDA n :
                  /\ readable(n)
                  /\ hasRelatedHeading(fs[n].text)
                  /\ missingOf(fs[n].text, getExistingSkills(fs)) # << >>)
      is == [i \in 1..Len(broken) |->
               [skill |-> broken[i],
                missing |-> missingOf(fs[broken[i]].text, getExistingSkills(fs))]]
  IN  [stdout |-> <<LineFound(Len(order))>>
                  \o [i \in 1..Len(notices) |-> LineCannotRead(notices[i])]
                  \o noSectionLines(noSection) \o issuesLines(is),
       exitCode |-> relatedExitCode(is, noSection)]

\* the run listed the skills root and has ended
relatedListedAndEnded == pc = "done" /\ LineCaught \notin Range(stdout)

\* a list of lines without the notices of unreadable documents
withoutNotices(lines) == SelectSeq(lines, LAMBDA l : l.tag # LineCannotRead(<< >>).tag)

\* C22: when checker 2 has ended, its standard output, the notices of
\* unreadable documents included, and its exit code are those of a run in which
\* the directories of the skills root are enumerated in any other order.
C22_OutputIndependentOfEnumerationOrder ==
  relatedListedAndEnded =>
    \A o \in Orders(getExistingSkills(fs)) :
       [stdout |-> stdout, exitCode |-> exitCode] = relatedRun(o)

\* the part of C22 the code keeps: the exit code, the lines other than the
\* notices, and the set of notices are the same for every order of enumeration
reportIndependentOfEnumeration ==
  relatedListedAndEnded =>
    \A o \in Orders(getExistingSkills(fs)) :
       /\ exitCode = relatedRun(o).exitCode
       /\ withoutNotices(stdout) = withoutNotices(relatedRun(o).stdout)
       /\ Range(stdout) = Range(relatedRun(o).stdout)

\* ------------------------------------------------------------------------
\* checker 1: the summary line
\* ------------------------------------------------------------------------

\* the summary lines on standard output
totals == SelectSeq(stdout, LAMBDA l : l.tag = LineTotal(0, 0, 0).tag)

\* C23: in the summary line of checker 1, N is the number of discovered files,
\* each of which has exactly one result, E is the sum of the lengths of the
\* per-file error lists and W the sum of the lengths of the per-file warning
\* lists.
C23_SummaryCounts ==
  \A i \in 1..Len(totals) :
     /\ totals[i].a = Cardinality(discovered(fs))
     /\ \A n \in discovered(fs) : Cardinality(resultsOf(n)) = 1
     /\ Len(results) = Cardinality(discovered(fs))
     /\ totals[i].b = sumErrors(results)
     /\ totals[i].c = sumWarnings(results)

\* a summary over two files, one of them with more than one error, and warnings
C23_Witness ==
  /\ pc = "done"
  /\ Len(totals) = 1
  /\ totals[1].a = 2
  /\ totals[1].b >= 2
  /\ totals[1].c >= 1
  /\ \E i \in 1..Len(results) : Len(results[i].errors) >= 2

\* ------------------------------------------------------------------------
\* extractFrontmatter: lines, keys, values, quotes
\* ------------------------------------------------------------------------

\* extractFrontmatter has returned a record for the document
extractedRecord == pc \in {"extracted", "validated"} /\ ~frontmatter.isNull

\* the lines of the block between the delimiters
blockLines == split(frontmatterBlock(content))

\* the position of the first colon of a line, 0 when it has none
firstColon(l) ==
  IF \E i \in 1..Len(l) : l[i] = ":" THEN Min({i \in 1..Len(l) : l[i] = ":"}) ELSE 0

\* the text before and after the first colon, without surrounding white space
beforeColon(l) == trim(SubSeq(l, 1, firstColon(l) - 1))
afterColon(l) == trim(SubSeq(l, firstColon(l) + 1, Len(l)))

\* the lines that have a colon which is not their first character
keyedLines == {i \in 1..Len(blockLines) : firstColon(blockLines[i]) > 1}

\* the last line that gives the key k
lastLineOf(k) == Max({i \in keyedLines : beforeColon(blockLines[i]) = k})

\* the value is wrapped in one matching pair of quote characters: its first and
\* its last character are two positions that hold the same quote character
inQuotePair(v) == Len(v) >= 2 /\ v[1] = v[Len(v)] /\ v[1] \in {"\"", "'"}

\* the value without that pair
withoutQuotePair(v) == SubSeq(v, 2, Len(v) - 1)

\* C24: the value of every key of the record is the trimmed text after the first
\* colon of the key's last line, without its first and last character when
\* these are a matching pair of quote characters, and unchanged otherwise: with
\* mismatched quotes, a quote at one end only, or a single quote character.
C24_QuotesStrippedOnlyInPairs ==
  extractedRecord =>
    \A k \in DOMAIN frontmatter.rec :
       LET v == afterColon(blockLines[lastLineOf(k)])
       IN  frontmatter.rec[k] = (IF inQuotePair(v) THEN withoutQuotePair(v) ELSE v)

\* the part of C24 the code keeps: the same, for every value that is not a
\* single quote character
pairsStrippedBeyondOneCharacter ==
  extractedRecord =>
    \A k \in DOMAIN frontmatter.rec :
       LET v == afterColon(blockLines[lastLineOf(k)])
       IN  (Len(v) # 1) =>
              frontmatter.rec[k] = (IF inQuotePair(v) THEN withoutQuotePair(v) ELSE v)

\* C25: every key of the record is the trimmed text before the first colon of a
\* line, and its value is the trimmed text after the first colon of the last
\* such line, later colons included (with or without its surrounding quotes);
\* every line with text before a first colon gives a key; lines without a colon
\* give nothing.
C25_FirstColonSplitsLastKeyWins ==
  extractedRecord =>
    /\ \A k \in DOMAIN frontmatter.rec :
          /\ \E i \in keyedLines : beforeColon(blockLines[i]) = k
          /\ LET v == afterColon(blockLines[lastLineOf(k)])
             IN  \/ frontmatter.rec[k] = v
                 \/ /\ v # << >>
                    /\ v[1] = v[Len(v)]
                    /\ v[1] \in {"\"", "'"}
                    /\ frontmatter.rec[k] = sliceInner(v)
    /\ \A i \in keyedLines : beforeColon(blockLines[i]) \in DOMAIN frontmatter.rec

\* the same key on two lines: the record holds the value of the second
C25_Witness ==
  /\ extractedRecord
  /\ content = <<"-", "-", "-", "\n", "n", "a", "m", "e", ":", " ", "a", "\n", "n", "a", "m", "e", ":", " ", "b", "\n", "-", "-", "-", "\n">>
  /\ frontmatter.rec[KeyName] = <<"b">>

\* C26: every key of a returned record is a non-empty string.
C26_NoEmptyKey ==
  extractedRecord => \A k \in DOMAIN frontmatter.rec : k # << >>

\* ------------------------------------------------------------------------
\* extractRelatedSkills: where the section ends
\* ------------------------------------------------------------------------

RECURSIVE joinLines(_)
\* lines.join("\n")
joinLines(ls) ==
  IF Len(ls) = 0 THEN << >>
  ELSE IF Len(ls) = 1 THEN ls[1]
  ELSE ls[1] \o <<"\n">> \o joinLines(Tail(ls))

\* s ends with t
isSuffix(t, s) == Len(t) <= Len(s) /\ SubSeq(s, Len(s) - Len(t) + 1, Len(s)) = t

\* the text of the document after the lines of the section
afterSection(c) ==
  LET ls == split(c)
      h == Min({k \in 1..Len(ls) : includes(toLowerCase(ls[k]), RelatedHeading)})
      n == h + Len(sectionLines(c))
  IN  joinLines(SubSeq(ls, n, Len(ls)))

\* the identifiers written after the section and nowhere in it
onlyAfterSection(c) ==
  {id \in Identifiers :
     includes(afterSection(c), id) /\ ~includes(joinLines(sectionLines(c)), id)}

\* the skills whose document has the heading
withHeading == {n \in DOMAIN fs : fs[n].doc = "ok" /\ hasRelatedHeading(fs[n].text)}

\* C27: for every document with the heading, the examined section begins at the
\* heading and ends with the line before the next level-2 heading, or with the
\* document if none follows; an identifier written only after that next heading
\* is neither collected nor reported as a broken reference.
C27_SectionEndsAtNextHeading ==
  \A n \in withHeading :
     LET c == fs[n].text
     IN  /\ at(toLowerCase(relatedSection(c)), 1, RelatedHeading)
         /\ isSuffix(relatedSection(c), joinLines(sectionLines(c)))
         /\ \A id \in onlyAfterSection(c) :
               /\ id \notin Range(extractRelatedSkills(c))
               /\ \A i \in 1..Len(issues) :
                     issues[i].skill = n => id \notin Range(issues[i].missing)
               /\ LineBrokenSkill(n) \in Range(stdout) =>
                     LineBroken(id) \notin Range(printedUnder(n))

\* a document with bknd-y in the section and bknd-z after the next heading: the
\* first is reported as broken, the second is not
C27_Witness ==
  /\ relatedEnded
  /\ \E i \in 1..Len(issues) :
        /\ <<"b", "k", "n", "d", "-", "z">> \in onlyAfterSection(fs[issues[i].skill].text)
        /\ <<"b", "k", "n", "d", "-", "y">> \in Range(issues[i].missing)
        /\ <<"b", "k", "n", "d", "-", "z">> \notin Range(issues[i].missing)
        /\ <<"b", "k", "n", "d", "-", "z">> \notin existingSkills

\* ------------------------------------------------------------------------
\* checkSections: which pattern gives the recorded match
\* ------------------------------------------------------------------------

\* for each document, the text matched by the first pattern of each list, in
\* list order, that matches it, computed once
uiFirstText ==
  [d \in SectionDocuments |->
     IF uiHits[d] = {} THEN Undefined ELSE matchText(UI_PATTERNS[Min(uiHits[d])], d)]
codeFirstText ==
  [d \in SectionDocuments |->
     IF codeHits[d] = {} THEN Undefined ELSE matchText(CODE_PATTERNS[Min(codeHits[d])], d)]

\* C28: for every checked document and for each of the UI and code lists, the
\* flag says whether some pattern of the list matches, the recorded match is the
\* text matched by the first pattern, in list order, that matches, and a list
\* without a matching pattern leaves the flag false and the match undefined.
C28_FirstPatternGivesMatch ==
  \A i \in 1..Len(results) :
     LET r == results[i]
         c == fs[r.skill].text
     IN  /\ r.hasUISection <=> uiHits[c] # {}
         /\ r.hasCodeSection <=> codeHits[c] # {}
         /\ r.uiMatch = uiFirstText[c]
         /\ r.codeMatch = codeFirstText[c]
         /\ ~r.hasUISection => r.uiMatch = Undefined
         /\ ~r.hasCodeSection => r.codeMatch = Undefined

\* a document in which the fourth and the sixth code pattern match, the sixth
\* earlier in the text: the recorded match is that of the fourth; and a document
\* without any match
C28_Witness ==
  /\ pc = "done"
  /\ \E i, j \in 1..Len(results) :
        /\ codeHits[fs[results[i].skill].text] = {4, 6}
        /\ results[i].codeMatch = <<"#", "#", " ", "U", "s", "i", "n", "g", " ", "t", "h", "e", " ", "A", "P", "I">>
        /\ ~results[j].hasUISection
        /\ results[j].uiMatch = Undefined

\* ------------------------------------------------------------------------
\* Checker 2: the exit code and the closing line; the resolution set
\* ------------------------------------------------------------------------

\* C29: a run of checker 2 that ends with exit code 0 has printed the closing
\* line "All Related Skills links are valid!"; in particular a run that fails
\* to list the skills root does not end with exit code 0.
C29_ExitZeroOnlyWithBanner ==
  (checker = 2 /\ pc = "done" /\ exitCode = 0) => LineAllValid \in Range(stdout)

\* the same for the runs that listed the skills root
exitZeroOnlyWithBannerWhenListed ==
  (relatedEnded /\ exitCode = 0) =>
     /\ LineAllValid \in Range(stdout)
     /\ stdout[Len(stdout)] = LineAllValid

\* the immediate subdirectories of the skills root
subdirectories == {n \in DOMAIN fs : fs[n].isDir}

\* the skills recorded with broken references
brokenSkills == {issues[i].skill : i \in 1..Len(issues)}

\* the subdirectories whose SKILL.md is missing or unreadable
withoutDocument == {n \in subdirectories : fs[n].doc # "ok"}

\* C30: nothing is read before the skills root is listed; from the listing on
\* the set against which references are resolved is the set of all immediate
\* subdirectories of the skills root; no recorded broken reference names a
\* subdirectory, one whose SKILL.md is missing or unreadable included; and no
\* skill is in both lists, nor twice in one.
C30_ResolutionSetIsAllSubdirectories ==
  /\ pc = "list" =>
        content = << >> /\ issues = << >> /\ noRelatedSection = << >> /\ stdout = << >>
  /\ (pc = "loop" \/ relatedEnded) => existingSkills = subdirectories
  /\ \A i \in 1..Len(issues) :
        /\ issues[i].missing = missingOf(fs[issues[i].skill].text, subdirectories)
        /\ Range(issues[i].missing) \cap withoutDocument = {}
  /\ Range(noRelatedSection) \cap brokenSkills = {}
  /\ Cardinality(Range(noRelatedSection)) = Len(noRelatedSection)
  /\ Cardinality(brokenSkills) = Len(issues)

\* a skill refers to a subdirectory whose SKILL.md cannot be read or is missing,
\* and the run ends without a broken reference
C30_Witness ==
  /\ relatedEnded
  /\ issues = << >>
  /\ exitCode = 0
  /\ \E s \in subdirectories :
        /\ fs[s].doc = "ok"
        /\ Range(extractRelatedSkills(fs[s].text)) \cap withoutDocument # {}
====
